---- MODULE Spec2Model ----
(***************************************************************************)
(* User-account backend (fast_zero): the users table, the sync and async   *)
(* user services, bearer-token authentication and the HTTP handlers of the *)
(* sync app (fast_zero/app.py) and the async app (fast_zero/async_app.py). *)
(*                                                                         *)
(* Text values (usernames, emails, passwords, names) are tuples of         *)
(* one-character strings, so that they can be compared with each other and *)
(* taken apart.  One HTTP request, with the commit or rollback of its      *)
(* session dependency, is one step.  The server keeps no record of the     *)
(* tokens it issues; held is the token a client got from its last login.   *)
(* security_manager is the in-memory state of security.security_manager:   *)
(* the login attempts per client address, the failed attempts per username *)
(* and the lockout times.  issued_to is the account the held token was     *)
(* issued for, 0 when there is none or it has been deleted; the server     *)
(* keeps no such record.  pc is the position of each request in flight,    *)
(* for the handlers that are followed step by step.                        *)
(* The columns created_at and updated_at are not modelled.                 *)
(***************************************************************************)
EXTENDS Integers, Sequences, FiniteSets, TLC

VARIABLES users, held, now, resp, security_manager, issued_to, pc

vars == <<users, held, now, resp, security_manager, issued_to, pc>>

----------------------------------------------------------------------------
(* Bounds *)

\* largest primary key the model hands out
MaxId == 3
\* the clock runs from 0 to MaxClock minutes in steps of ClockStep minutes
MaxClock == 45
ClockStep == 20
\* most attempts the rate limiter, or the lockout of a username, records
MaxAttempts == 6

----------------------------------------------------------------------------
(* Values *)

\* Python None / SQL NULL
None == <<"None">>

U_ana == <<"a", "n", "a">>
U_bob == <<"b", "o", "b">>
Usernames == {U_ana, U_bob}

E_ana == <<"a", "n", "a", "@", "x">>
E_bob == <<"b", "o", "b", "@", "x">>
E_zed == <<"z", "e", "d", "@", "x">>
Emails == {E_ana, E_bob, E_zed}

P_good == <<"P", "w", "9", "$">>
P_bad == <<"n", "o">>

F_name == <<"A">>
B_text == <<"h", "i">>

Apps == {"sync", "async"}

\* settings.ACCESS_TOKEN_EXPIRE_MINUTES
ACCESS_TOKEN_EXPIRE_MINUTES == 30

Max(S) == CHOOSE m \in S : \A x \in S : x <= m

----------------------------------------------------------------------------
(* Password hashing *)

\* pwd_context.hash: the hash differs from the password and is verified
\* only by the password it was made from
get_password_hash(password) == <<"$2b$">> \o password

\* pwd_context.verify: False for an absent hash
verify_password(plain_password, hashed_password) ==
    /\ hashed_password # None
    /\ hashed_password = get_password_hash(plain_password)

----------------------------------------------------------------------------
(* The users table *)

\* models.User as built by the services; the defaults of the dataclass
User(username, email, password, first_name, last_name, bio) ==
    [username |-> username, email |-> email, password |-> password,
     first_name |-> first_name, last_name |-> last_name, bio |-> bio,
     is_active |-> TRUE, is_verified |-> FALSE,
     google_id |-> None, picture |-> None, oauth_provider |-> None]

\* primary key given by the database: one more than the largest key stored
NewId(db) == IF DOMAIN db = {} THEN 1 ELSE Max(DOMAIN db) + 1

\* a plausible slip: the email column declared without unique=True
UniqueViolationsNoEmail(db) ==
    {c \in {"username", "google_id"} :
        \E i, j \in DOMAIN db :
            i # j /\ db[i][c] # None /\ db[i][c] = db[j][c]}

\* the columns declared unique=True of which two rows hold the same value
\* (NULLs never collide)
UniqueViolations(db) ==
    {c \in {"username", "email", "google_id"} :
        \E i, j \in DOMAIN db :
            i # j /\ db[i][c] # None /\ db[i][c] = db[j][c]}

\* the columns typed Mapped[str] (NOT NULL) that hold NULL in some row
NotNullViolations(db) ==
    {c \in {"username", "email"} : \E i \in DOMAIN db : db[i][c] = None}

\* session.flush(): the constraint the database reports, if any; when
\* several are violated the database names one of them
IntegrityErrors(db) ==
    {[kind |-> "unique", column |-> c] : c \in UniqueViolations(db)}
        \cup {[kind |-> "notnull", column |-> c] : c \in NotNullViolations(db)}

Put(db, id, row) == [i \in DOMAIN db \cup {id} |-> IF i = id THEN row ELSE db[i]]

Remove(db, id) == [i \in DOMAIN db \ {id} |-> db[i]]

----------------------------------------------------------------------------
(* Outcomes of a service call: the rows the session holds afterwards, the  *)
(* exception raised ("none" when the call returns) with its message, and   *)
(* the primary key of the row returned (0 for None / False).               *)

Returned(db, id) == [db |-> db, exc |-> "none", msg |-> "", id |-> id]

Raised(db, exc, msg) == [db |-> db, exc |-> exc, msg |-> msg, id |-> 0]

\* str(e) of an IntegrityError as far as the services look at it: the
\* constraint the database names ("... constraint failed: users.<column>")
\* and the columns the failed statement names ("[SQL: ...]")
ErrorText(err, statement_columns) ==
    {"users." \o err.column, err.column} \cup statement_columns

----------------------------------------------------------------------------
(* UserService (services.py) *)

\* UserService.create_user
SyncCreateUser(db, data) ==
    IF \E i \in DOMAIN db : db[i].username = data.username
    THEN {Raised(db, "ValueError", "Username already exists")}
    ELSE IF \E i \in DOMAIN db : db[i].email = data.email
    THEN {Raised(db, "ValueError", "Email already exists")}
    ELSE LET id == NewId(db)
             db2 == Put(db, id,
                        User(data.username, data.email,
                             get_password_hash(data.password),
                             data.first_name, data.last_name, data.bio))
         IN  IF IntegrityErrors(db2) = {}
             THEN {Returned(db2, id)}
             ELSE {Raised(db, "IntegrityError", "") : e \in IntegrityErrors(db2)}

\* AsyncUserService.create_user: the classification of the IntegrityError
CreateErrorMessage(error_msg) ==
    IF "users.username" \in error_msg THEN "Username already exists"
    ELSE IF "users.email" \in error_msg THEN "Email already exists"
    ELSE IF "username" \in error_msg THEN "Username already exists"
    ELSE IF "email" \in error_msg THEN "Email already exists"
    ELSE ""

\* AsyncUserService.create_user
AsyncCreateUser(db, data) ==
    LET id == NewId(db)
        db2 == Put(db, id,
                   User(data.username, data.email,
                        get_password_hash(data.password),
                        data.first_name, data.last_name, data.bio))
    IN  IF IntegrityErrors(db2) = {}
        THEN {Returned(db2, id)}
        ELSE {LET m == CreateErrorMessage(ErrorText(e, {"username", "email"}))
              IN  IF m = "" THEN Raised(db, "IntegrityError", "")
                  ELSE Raised(db, "ValueError", m) : e \in IntegrityErrors(db2)}

\* get_user_by_id: 0 stands for None
get_user_by_id(db, user_id) == IF user_id \in DOMAIN db THEN user_id ELSE 0

\* get_user_by_username / get_user_by_email / get_user_by_google_id
get_user_by(db, column, value) ==
    IF \E i \in DOMAIN db : db[i][column] = value
    THEN CHOOSE i \in DOMAIN db : db[i][column] = value
    ELSE 0

\* a plausible slip: UserUpdate declared with a username field as well
UserUpdateWithUsername(body) ==
    [f \in DOMAIN body \cap {"username", "email", "first_name", "last_name", "bio"}
        |-> body[f]]

\* schemas.UserUpdate parsed from a request body and dumped with
\* exclude_unset=True: the declared fields the body supplies, nothing else
UserUpdate(body) ==
    [f \in DOMAIN body \cap {"email", "first_name", "last_name", "bio"}
        |-> body[f]]

\* update_user: the classification of the IntegrityError
UpdateErrorMessage(error_msg) ==
    IF "username" \in error_msg THEN "Username already exists"
    ELSE IF "email" \in error_msg THEN "Email already exists"
    ELSE ""

\* UserService.update_user and AsyncUserService.update_user
UpdateUser(db, user_id, update_data) ==
    IF get_user_by_id(db, user_id) = 0
    THEN {Returned(db, 0)}
    ELSE LET row == [f \in DOMAIN db[user_id] |->
                        IF f \in DOMAIN update_data THEN update_data[f]
                        ELSE db[user_id][f]]
             db2 == Put(db, user_id, row)
             changed == {f \in DOMAIN update_data : row[f] # db[user_id][f]}
         IN  IF IntegrityErrors(db2) = {}
             THEN {Returned(db2, user_id)}
             ELSE {LET m == UpdateErrorMessage(ErrorText(e, changed))
                   IN  IF m = "" THEN Raised(db, "IntegrityError", "")
                       ELSE Raised(db, "ValueError", m) : e \in IntegrityErrors(db2)}

\* UserService.delete_user and AsyncUserService.delete_user: id 0 is False
DeleteUser(db, user_id) ==
    IF get_user_by_id(db, user_id) = 0
    THEN {Returned(db, 0)}
    ELSE {Returned(Remove(db, user_id), user_id)}

\* deactivate_user / activate_user
SetActive(db, user_id, active) ==
    IF get_user_by_id(db, user_id) = 0
    THEN {Returned(db, 0)}
    ELSE {Returned(Put(db, user_id, [db[user_id] EXCEPT !.is_active = active]),
                   user_id)}

\* AsyncUserService.create_oauth_user
CreateOAuthUser(db, data, google_id, picture, oauth_provider, is_verified) ==
    LET id == NewId(db)
        hashed_password == IF data.password # <<>>
                           THEN get_password_hash(data.password) ELSE None
        row == [User(data.username, data.email, hashed_password,
                     data.first_name, data.last_name, data.bio)
                EXCEPT !.google_id = google_id, !.picture = picture,
                       !.oauth_provider = oauth_provider,
                       !.is_verified = is_verified, !.is_active = TRUE]
        db2 == Put(db, id, row)
    IN  IF IntegrityErrors(db2) = {}
        THEN {Returned(db2, id)}
        ELSE {LET m == CreateErrorMessage(ErrorText(e, {"username", "email"}))
              IN  IF m = "" THEN Raised(db, "IntegrityError", "")
                  ELSE Raised(db, "ValueError", m) : e \in IntegrityErrors(db2)}

\* AsyncUserService.update_user_oauth_info
UpdateUserOAuthInfo(db, user_id, google_id, picture, oauth_provider) ==
    IF get_user_by_id(db, user_id) = 0
    THEN {Returned(db, 0)}
    ELSE LET db2 == Put(db, user_id,
                        [db[user_id] EXCEPT !.google_id = google_id,
                                            !.picture = picture,
                                            !.oauth_provider = oauth_provider])
         IN  IF IntegrityErrors(db2) = {}
             THEN {Returned(db2, user_id)}
             ELSE {Raised(db, "IntegrityError", "")}

----------------------------------------------------------------------------
(* Bearer tokens: whether the string is a JWT at all, the key it is signed *)
(* with, and the sub and exp claims.                                       *)

Token(sub, exp) ==
    [form |-> "jwt", key |-> "SECRET_KEY", sub |-> sub, exp |-> exp]

\* no Authorization header
NoToken == [Token(None, 0) EXCEPT !.form = "absent", !.key = ""]
\* a string that is not a JWT
MalformedToken == [Token(None, 0) EXCEPT !.form = "garbage", !.key = ""]
\* a well-formed, unexpired JWT signed with another key
ForgedToken == [Token(E_ana, MaxClock + 1) EXCEPT !.key = "other"]
\* a JWT signed with SECRET_KEY that carries no sub claim
NoSubToken == Token(None, MaxClock + 1)

\* what kind of token a request carried
Tag(token) ==
    IF token.form # "jwt" THEN token.form
    ELSE IF token.key # "SECRET_KEY" THEN "forged"
    ELSE IF token.sub = None THEN "nosub"
    ELSE "issued"

\* create_access_token (auth.py, async_auth.py) as the login handlers call it
create_access_token(sub, expires_delta, t) == Token(sub, t + expires_delta)

\* a plausible slip: the exp claim is not checked
jwt_decode_no_exp(token, t) ==
    IF token.form # "jwt" \/ token.key # "SECRET_KEY"
    THEN <<>>
    ELSE <<[sub |-> token.sub]>>

\* jwt.decode(token, SECRET_KEY, algorithms=[ALGORITHM]): the payload, or
\* <<>> for a JWTError (not a JWT, wrong signature, exp in the past)
jwt_decode(token, t) ==
    IF token.form # "jwt" \/ token.key # "SECRET_KEY" \/ token.exp < t
    THEN <<>>
    ELSE <<[sub |-> token.sub]>>

Unauthorized(detail) ==
    [id |-> 0, status |-> 401, detail |-> detail, www |-> "Bearer"]

Authenticated(id) == [id |-> id, status |-> 200, detail |-> "", www |-> ""]

\* a plausible slip: both apps look the sub claim up by username
SubjectColumnUsername(app) == "username"

\* the column in which get_current_user looks the sub claim up:
\* auth.get_current_user by email, async_auth.get_current_user by username
SubjectColumn(app) == IF app = "sync" THEN "email" ELSE "username"

\* oauth2_scheme followed by get_current_user
get_current_user(app, token, db, t) ==
    IF token.form = "absent" THEN Unauthorized("Not authenticated")
    ELSE LET payload == jwt_decode(token, t)
         IN  IF payload = <<>> THEN Unauthorized("Could not validate credentials")
             ELSE IF payload[1].sub = None
             THEN Unauthorized("Could not validate credentials")
             ELSE IF get_user_by(db, SubjectColumn(app), payload[1].sub) = 0
             THEN Unauthorized("Could not validate credentials")
             ELSE Authenticated(get_user_by(db, SubjectColumn(app), payload[1].sub))

\* the outcome of authenticate_user: the id of the user (0 for False), the
\* row the identifier matched, and the HTTPException that escaped (status 0
\* when none did)
AuthResult(id, match, status, detail) ==
    [id |-> id, match |-> match, status |-> status, detail |-> detail]

\* auth.authenticate_user
SyncAuthenticateUser(db, username_or_email, password) ==
    LET found == {i \in DOMAIN db : \/ db[i].username = username_or_email
                                     \/ db[i].email = username_or_email}
    IN  IF found = {} THEN AuthResult(0, 0, 0, "")
        ELSE LET user == CHOOSE i \in found : TRUE
             IN  IF ~verify_password(password, db[user].password)
                 THEN AuthResult(0, user, 0, "")
                 ELSE AuthResult(user, user, 0, "")

\* UserSecurityService.validate_user_for_login: the HTTPException raised,
\* status 0 when it returns
validate_user_for_login(db, username) ==
    IF get_user_by(db, "username", username) = 0
    THEN [status |-> 401, detail |-> "Invalid credentials"]
    ELSE IF ~db[get_user_by(db, "username", username)].is_active
    THEN [status |-> 403, detail |-> "Account is deactivated"]
    ELSE [status |-> 0, detail |-> ""]

\* a plausible slip: the HTTPException of validate_user_for_login escapes
AsyncAuthenticateUserNoCatch(db, username_or_email, password) ==
    LET by_username == get_user_by(db, "username", username_or_email)
        user == IF by_username # 0 THEN by_username
                ELSE get_user_by(db, "email", username_or_email)
    IN  IF user = 0 THEN AuthResult(0, 0, 0, "")
        ELSE IF validate_user_for_login(db, db[user].username).status # 0
        THEN AuthResult(0, user,
                        validate_user_for_login(db, db[user].username).status,
                        validate_user_for_login(db, db[user].username).detail)
        ELSE IF ~verify_password(password, db[user].password)
        THEN AuthResult(0, user, 0, "")
        ELSE AuthResult(user, user, 0, "")

\* async_auth.authenticate_user
AsyncAuthenticateUser(db, username_or_email, password) ==
    LET by_username == get_user_by(db, "username", username_or_email)
        user == IF by_username # 0 THEN by_username
                ELSE get_user_by(db, "email", username_or_email)
    IN  IF user = 0 THEN AuthResult(0, 0, 0, "")
        ELSE IF validate_user_for_login(db, db[user].username).status # 0
        THEN AuthResult(0, user, 0, "")
        ELSE IF ~verify_password(password, db[user].password)
        THEN AuthResult(0, user, 0, "")
        ELSE AuthResult(user, user, 0, "")

authenticate_user(app, db, username_or_email, password) ==
    IF app = "sync" THEN SyncAuthenticateUser(db, username_or_email, password)
    ELSE AsyncAuthenticateUser(db, username_or_email, password)

----------------------------------------------------------------------------
(* RateLimiter, AccountLockout and SecurityManager (security.py).  Times   *)
(* are minutes, as the clock is.                                           *)

\* settings.RATE_LIMIT_LOGIN_ATTEMPTS
RATE_LIMIT_LOGIN_ATTEMPTS == 5
\* settings.RATE_LIMIT_WINDOW_MINUTES
RATE_LIMIT_WINDOW_MINUTES == 15
\* settings.ACCOUNT_LOCKOUT_ATTEMPTS
ACCOUNT_LOCKOUT_ATTEMPTS == 5
\* settings.ACCOUNT_LOCKOUT_DURATION_MINUTES
ACCOUNT_LOCKOUT_DURATION_MINUTES == 30

\* the addresses _get_client_ip can return
ClientIps == {"10.0.0.1"}

\* the identifiers the rate limiter is asked about: that address and one more
Addresses == ClientIps \cup {"10.0.0.2"}

\* SecurityManager(): no attempt recorded, nobody locked out.  A key a
\* defaultdict has not seen reads as the empty list, or as 0.
SecurityManager ==
    [attempts |-> [ip \in Addresses |-> <<>>],
     failed_attempts |-> [u \in Usernames |-> 0],
     lockout_times |-> <<>>,
     rate_limiter_lock |-> FALSE,
     account_lockout_lock |-> FALSE]

\* a plausible slip: the attempts are counted without the old ones being
\* left out
is_rate_limited_no_window(sm, identifier, t) ==
    [result |-> Len(sm.attempts[identifier]) >= RATE_LIMIT_LOGIN_ATTEMPTS,
     sm |-> sm]

\* RateLimiter.is_rate_limited at time t: the answer and the state left
is_rate_limited(sm, identifier, t) ==
    LET window_start == t - RATE_LIMIT_WINDOW_MINUTES
        recent(attempt_time) == attempt_time > window_start
        kept == SelectSeq(sm.attempts[identifier], recent)
    IN  [result |-> Len(kept) >= RATE_LIMIT_LOGIN_ATTEMPTS,
         sm |-> [sm EXCEPT !.attempts[identifier] = kept]]

\* RateLimiter.record_attempt at time t
record_attempt(sm, identifier, t) ==
    [sm EXCEPT !.attempts[identifier] = Append(@, t)]

\* RateLimiter.clear_attempts
clear_attempts(sm, identifier) == [sm EXCEPT !.attempts[identifier] = <<>>]

\* a plausible slip: an expired lockout is removed but the counter is kept
is_locked_out_keep_counter(sm, username, t) ==
    IF username \notin DOMAIN sm.lockout_times
    THEN [result |-> FALSE, sm |-> sm]
    ELSE IF t > sm.lockout_times[username] + ACCOUNT_LOCKOUT_DURATION_MINUTES
    THEN [result |-> FALSE,
          sm |-> [sm EXCEPT !.lockout_times =
                                [u \in DOMAIN sm.lockout_times \ {username}
                                    |-> sm.lockout_times[u]]]]
    ELSE [result |-> TRUE, sm |-> sm]

\* AccountLockout.is_locked_out at time t: the answer and the state left
is_locked_out(sm, username, t) ==
    IF username \notin DOMAIN sm.lockout_times
    THEN [result |-> FALSE, sm |-> sm]
    ELSE IF t > sm.lockout_times[username] + ACCOUNT_LOCKOUT_DURATION_MINUTES
    THEN [result |-> FALSE,
          sm |-> [sm EXCEPT !.lockout_times =
                                [u \in DOMAIN sm.lockout_times \ {username}
                                    |-> sm.lockout_times[u]],
                            !.failed_attempts[username] = 0]]
    ELSE [result |-> TRUE, sm |-> sm]

\* AccountLockout.record_failed_attempt at time t
record_failed_attempt(sm, username, t) ==
    LET n == sm.failed_attempts[username] + 1
    IN  IF n >= ACCOUNT_LOCKOUT_ATTEMPTS
        THEN [sm EXCEPT !.failed_attempts[username] = n,
                        !.lockout_times =
                            [u \in DOMAIN sm.lockout_times \cup {username} |->
                                IF u = username THEN t ELSE sm.lockout_times[u]]]
        ELSE [sm EXCEPT !.failed_attempts[username] = n]

\* a plausible slip: the counter is reset but the lockout time is kept
clear_failed_attempts_keep_lockout(sm, username) ==
    [sm EXCEPT !.failed_attempts[username] = 0]

\* AccountLockout.clear_failed_attempts
clear_failed_attempts(sm, username) ==
    [sm EXCEPT !.failed_attempts[username] = 0,
               !.lockout_times = [u \in DOMAIN sm.lockout_times \ {username}
                                     |-> sm.lockout_times[u]]]

\* AccountLockout.get_lockout_info at time t: <<>> stands for None
get_lockout_info(sm, username, t) ==
    IF username \notin DOMAIN sm.lockout_times THEN <<>>
    ELSE LET lockout_time == sm.lockout_times[username]
             unlock_time == lockout_time + ACCOUNT_LOCKOUT_DURATION_MINUTES
         IN  IF t > unlock_time THEN <<>>
             ELSE <<[locked_at |-> lockout_time, unlock_at |-> unlock_time,
                     remaining_minutes |-> unlock_time - t]>>

\* what check_login_security does: the HTTPException raised (status 0 when
\* it returns), its Retry-After header in seconds, and the state left
Checked(sm, status, retry_after) ==
    [sm |-> sm, status |-> status, retry_after |-> retry_after]

\* SecurityManager.check_login_security: the rate limit and is_locked_out
\* read the clock at t, get_lockout_info reads it again at t2 >= t
check_login_security(sm, client_ip, username, t, t2) ==
    LET limited == is_rate_limited(sm, client_ip, t)
        locked == is_locked_out(limited.sm, username, t)
        lockout_info == get_lockout_info(locked.sm, username, t2)
    IN  IF limited.result
        THEN Checked(limited.sm, 429, RATE_LIMIT_WINDOW_MINUTES * 60)
        ELSE IF locked.result /\ lockout_info # <<>>
        THEN Checked(locked.sm, 423, lockout_info[1].remaining_minutes * 60)
        ELSE Checked(locked.sm, 0, 0)

\* a plausible slip: a successful login clears the whole bookkeeping
record_login_attempt_clear_all(sm, client_ip, username, success, t) ==
    IF success
    THEN [sm EXCEPT !.attempts = [ip \in DOMAIN sm.attempts |-> <<>>],
                    !.failed_attempts = [u \in DOMAIN sm.failed_attempts |-> 0],
                    !.lockout_times = <<>>]
    ELSE record_failed_attempt(record_attempt(sm, client_ip, t), username, t)

\* SecurityManager.record_login_attempt at time t
record_login_attempt(sm, client_ip, username, success, t) ==
    IF success
    THEN clear_failed_attempts(clear_attempts(sm, client_ip), username)
    ELSE record_failed_attempt(record_attempt(sm, client_ip, t), username, t)

----------------------------------------------------------------------------
(* Requests.  resp is the response to the last request (status, detail,    *)
(* the WWW-Authenticate header, the id of the user in the body) together   *)
(* with a record of the request: the operation, the app, the kind of token *)
(* it carried and, for a login, the row its identifier matched.            *)

Response(op, app, status, detail, www, uid, tok, match) ==
    [op |-> op, app |-> app, status |-> status, detail |-> detail,
     www |-> www, uid |-> uid, tok |-> tok, match |-> match]

Ids == 1..MaxId

\* the requests that can be in flight at the same time, and a request
\* that is not in a handler
Requests == {"r1", "r2"}

Idle == [at |-> "idle"]

Identifiers == Usernames \cup Emails

Passwords == {P_good, P_bad}

\* a UserCreate body that leaves the optional fields out
CreateBody(username, email, password) ==
    [username |-> username, email |-> email, password |-> password,
     first_name |-> None, last_name |-> None, bio |-> None]

\* the tokens a client can present
Presentable == {held, NoToken, MalformedToken, ForgedToken, NoSubToken}

Init ==
    /\ users = <<>>
    /\ held = NoToken
    /\ now = 0
    /\ resp = Response("init", "", 0, "", "", 0, "absent", 0)
    /\ security_manager = SecurityManager
    /\ issued_to = 0
    /\ pc = [r \in Requests |-> Idle]

\* POST /users/ (app.py create_user, async_app.py create_user)
CreateUserReq(app, data) ==
    /\ NewId(users) <= MaxId
    /\ \E r \in (IF app = "sync" THEN SyncCreateUser(users, data)
                                  ELSE AsyncCreateUser(users, data)) :
          /\ users' = IF r.exc = "none" THEN r.db ELSE users
          /\ resp' = IF r.exc = "none"
                      THEN Response("create", app, 201, "", "", r.id, "absent", 0)
                      ELSE IF r.exc = "ValueError"
                      THEN Response("create", app, 409, r.msg, "", 0, "absent", 0)
                      ELSE Response("create", app, 500, "Internal Server Error",
                                    "", 0, "absent", 0)
    /\ UNCHANGED <<held, now, security_manager, issued_to, pc>>

\* POST /auth/token (app.py and async_app.py login_for_access_token)
LoginReq(app, username, password) ==
    LET a == authenticate_user(app, users, username, password)
        sub == IF app = "sync" THEN users[a.id].email ELSE users[a.id].username
        access_token == create_access_token(sub, ACCESS_TOKEN_EXPIRE_MINUTES, now)
    IN  /\ IF a.status # 0
           THEN /\ resp' = Response("login", app, a.status, a.detail, "", 0,
                                     "absent", a.match)
                /\ UNCHANGED <<held, issued_to>>
           ELSE IF a.id = 0
           THEN /\ resp' = Response("login", app, 401,
                                     "Incorrect username or password", "Bearer",
                                     0, "absent", a.match)
                /\ UNCHANGED <<held, issued_to>>
           ELSE /\ held' = access_token
                /\ issued_to' = a.id
                /\ resp' = Response("login", app, 200, "", "", a.id, "absent",
                                     a.match)
        /\ UNCHANGED <<users, now, security_manager, pc>>

\* GET /users/me (app.py get_current_user_endpoint, async_app.py read_users_me)
MeReq(app, tok) ==
    LET current_user == get_current_user(app, tok, users, now)
    IN  /\ resp' = Response("me", app, current_user.status, current_user.detail,
                             current_user.www, current_user.id, Tag(tok), 0)
        /\ UNCHANGED <<users, held, now, security_manager, issued_to, pc>>

\* GET /users/{user_id} (app.py and async_app.py read_user)
ReadUserReq(app, user_id) ==
    /\ resp' = IF get_user_by_id(users, user_id) = 0
                THEN Response("read", app, 404, "User not found", "", 0,
                              "absent", 0)
                ELSE Response("read", app, 200, "", "", user_id, "absent", 0)
    /\ UNCHANGED <<users, held, now, security_manager, issued_to, pc>>

\* the handler body of PUT /users/{user_id} from the service call on
\* (app.py lines 358-372, async_app.py lines 358-371)
UpdateUserBody(app, user_id, tok, body) ==
    \E r \in UpdateUser(users, user_id, UserUpdate(body)) :
        /\ users' = IF r.exc = "none" THEN r.db ELSE users
        /\ resp' = IF r.exc = "none" /\ r.id = 0
                    THEN Response("update", app, 404, "User not found", "", 0,
                                  Tag(tok), 0)
                    ELSE IF r.exc = "none"
                    THEN Response("update", app, 200, "", "", r.id, Tag(tok), 0)
                    ELSE IF r.exc = "ValueError"
                    THEN Response("update", app, 409, r.msg, "", 0, Tag(tok), 0)
                    ELSE Response("update", app, 500, "Internal Server Error",
                                  "", 0, Tag(tok), 0)

\* PUT /users/{user_id} (app.py update_user, async_app.py update_user)
UpdateUserReq(app, user_id, tok, body) ==
    /\ IF app = "sync"
       THEN LET current_user == get_current_user(app, tok, users, now)
            IN  IF current_user.status # 200
                THEN /\ resp' = Response("update", app, current_user.status,
                                          current_user.detail, current_user.www,
                                          0, Tag(tok), 0)
                     /\ UNCHANGED users
                ELSE IF current_user.id # user_id
                THEN /\ resp' = Response("update", app, 403,
                                          "Not enough permissions", "", 0,
                                          Tag(tok), 0)
                     /\ UNCHANGED users
                ELSE UpdateUserBody(app, user_id, tok, body)
       ELSE UpdateUserBody(app, user_id, tok, body)
    /\ UNCHANGED <<held, now, security_manager, issued_to, pc>>

\* the handler body of DELETE /users/{user_id} from the service call on
\* (app.py lines 404-412, async_app.py lines 395-402)
DeleteUserBody(app, user_id, tok) ==
    \E r \in DeleteUser(users, user_id) :
        /\ users' = r.db
        /\ resp' = IF r.id = 0
                    THEN Response("delete", app, 404, "User not found", "", 0,
                                  Tag(tok), 0)
                    ELSE Response("delete", app, 200, "User deleted", "", r.id,
                                  Tag(tok), 0)

\* DELETE /users/{user_id} (app.py delete_user, async_app.py delete_user)
DeleteUserReq(app, user_id, tok) ==
    /\ IF app = "sync"
       THEN LET current_user == get_current_user(app, tok, users, now)
            IN  IF current_user.status # 200
                THEN /\ resp' = Response("delete", app, current_user.status,
                                          current_user.detail, current_user.www,
                                          0, Tag(tok), 0)
                     /\ UNCHANGED users
                ELSE IF current_user.id # user_id
                THEN /\ resp' = Response("delete", app, 403,
                                          "Not enough permissions", "", 0,
                                          Tag(tok), 0)
                     /\ UNCHANGED users
                ELSE DeleteUserBody(app, user_id, tok)
       ELSE DeleteUserBody(app, user_id, tok)
    /\ issued_to' = IF issued_to \in DOMAIN users' THEN issued_to ELSE 0
    /\ UNCHANGED <<held, now, security_manager, pc>>

\* datetime.now() moves on
Tick ==
    /\ now + ClockStep <= MaxClock
    /\ now' = now + ClockStep
    /\ UNCHANGED <<users, held, resp, security_manager, issued_to, pc>>

----------------------------------------------------------------------------
(* Service calls made with a session of get_session / get_async_session:   *)
(* the session commits when the call returns and rolls back when it        *)
(* raises.  resp records the call and its outcome.                         *)

G_one == <<"g","1">>

Pic == <<"p">>

Outcome(op, service, r) ==
    Response(op, service, 0,
             IF r.exc = "ValueError" THEN r.msg
             ELSE IF r.exc = "none" THEN "" ELSE r.exc,
             "", r.id, "absent", 0)

\* create_user of UserService and of AsyncUserService
CreateUserCall(service, data) ==
    /\ NewId(users) <= MaxId
    /\ \E r \in (IF service = "sync" THEN SyncCreateUser(users, data)
                                      ELSE AsyncCreateUser(users, data)) :
          /\ users' = IF r.exc = "none" THEN r.db ELSE users
          /\ resp' = Outcome("create_user", service, r)
    /\ UNCHANGED <<held, now, security_manager, issued_to, pc>>

\* AsyncUserService.create_oauth_user
CreateOAuthUserCall(data, google_id) ==
    /\ NewId(users) <= MaxId
    /\ \E r \in CreateOAuthUser(users, data, google_id, Pic, <<"google">>, TRUE) :
          /\ users' = IF r.exc = "none" THEN r.db ELSE users
          /\ resp' = Outcome("create_oauth_user", "async", r)
    /\ UNCHANGED <<held, now, security_manager, issued_to, pc>>

\* update_user of either service, with the UserUpdate parsed from body
UpdateUserCall(user_id, body) ==
    /\ \E r \in UpdateUser(users, user_id, UserUpdate(body)) :
          /\ users' = IF r.exc = "none" THEN r.db ELSE users
          /\ resp' = Outcome("update_user", "", r)
    /\ UNCHANGED <<held, now, security_manager, issued_to, pc>>

\* AsyncUserService.update_user_oauth_info
UpdateUserOAuthInfoCall(user_id, google_id) ==
    /\ \E r \in UpdateUserOAuthInfo(users, user_id, google_id, Pic, <<"google">>) :
          /\ users' = IF r.exc = "none" THEN r.db ELSE users
          /\ resp' = Outcome("update_user_oauth_info", "async", r)
    /\ UNCHANGED <<held, now, security_manager, issued_to, pc>>

\* delete_user of either service
DeleteUserCall(user_id) ==
    /\ \E r \in DeleteUser(users, user_id) :
          /\ users' = r.db
          /\ resp' = Outcome("delete_user", "", r)
    /\ issued_to' = IF issued_to \in DOMAIN users' THEN issued_to ELSE 0
    /\ UNCHANGED <<held, now, security_manager, pc>>

\* deactivate_user / activate_user of either service
SetActiveCall(user_id, active) ==
    /\ \E r \in SetActive(users, user_id, active) :
          /\ users' = r.db
          /\ resp' = Outcome(IF active THEN "activate_user" ELSE "deactivate_user",
                              "", r)
    /\ UNCHANGED <<held, now, security_manager, issued_to, pc>>

----------------------------------------------------------------------------
(* The service layer on its own *)

SvcCreateBodies ==
    {CreateBody(u, e, P_good) : u \in Usernames, e \in {E_ana, E_bob}}

SvcOAuthBodies == {CreateBody(u, e, <<>>) : u \in Usernames, e \in {E_ana, E_bob}}

\* request bodies of an update: one field, a free or a taken email, an
\* explicit null, a username the schema does not declare
SvcUpdateBodies ==
    {("bio" :> B_text), ("email" :> E_zed), ("email" :> E_ana),
     ("email" :> None), ("username" :> U_bob @@ "first_name" :> F_name)}

NextSvc ==
    \/ \E service \in Apps, data \in SvcCreateBodies : CreateUserCall(service, data)
    \/ \E data \in SvcOAuthBodies : CreateOAuthUserCall(data, G_one)
    \/ \E user_id \in Ids, body \in SvcUpdateBodies : UpdateUserCall(user_id, body)
    \/ \E user_id \in Ids : UpdateUserOAuthInfoCall(user_id, G_one)
    \/ \E user_id \in Ids : DeleteUserCall(user_id)

SpecSvc == Init /\ [][NextSvc]_vars

----------------------------------------------------------------------------
(* The routes of both apps *)

ApiCreateBodies ==
    {CreateBody(u, e, P_good) : u \in Usernames, e \in {E_ana, E_bob}}

ApiUpdateBodies == {("bio" :> B_text), ("email" :> E_zed)}

NextApi ==
    \/ \E app \in Apps, data \in ApiCreateBodies : CreateUserReq(app, data)
    \/ \E app \in Apps, username \in Usernames : LoginReq(app, username, P_good)
    \/ \E app \in Apps : MeReq(app, held)
    \/ \E app \in Apps, user_id \in Ids : ReadUserReq(app, user_id)
    \/ \E app \in Apps, user_id \in Ids, tok \in {held, NoToken},
          body \in ApiUpdateBodies : UpdateUserReq(app, user_id, tok, body)
    \/ \E app \in Apps, user_id \in Ids, tok \in {held, NoToken} :
          DeleteUserReq(app, user_id, tok)

SpecApi == Init /\ [][NextApi]_vars

----------------------------------------------------------------------------
(* Authentication in both apps, with the clock *)

AuthCreateBodies == {CreateBody(U_ana, E_ana, P_good), CreateBody(U_bob, E_bob, P_good)}

NextAuth ==
    \/ \E app \in Apps, data \in AuthCreateBodies : CreateUserReq(app, data)
    \/ \E app \in Apps, username \in {U_ana, E_ana, U_bob}, password \in Passwords :
          LoginReq(app, username, password)
    \/ \E app \in Apps, tok \in Presentable : MeReq(app, tok)
    \/ \E app \in Apps, user_id \in Ids : DeleteUserReq(app, user_id, held)
    \/ \E user_id \in Ids, active \in BOOLEAN : SetActiveCall(user_id, active)
    \/ Tick

SpecAuth == Init /\ [][NextAuth]_vars

----------------------------------------------------------------------------
(* Properties of the service layer *)

\* C1: after any sequence of create_user, create_oauth_user, update_user,
\* update_user_oauth_info and delete_user calls of either service, no two
\* stored users share a username, no two share an email, and no two share
\* a google_id that is not null.
C1_Unique ==
    \A i, j \in DOMAIN users :
        i # j => /\ users[i].username # users[j].username
                 /\ users[i].email # users[j].email
                 /\ (users[i].google_id # None
                       => users[i].google_id # users[j].google_id)

\* two users are stored, one of them linked to a Google account, and
\* linking the other to the same Google account has just been refused
C1_Witness ==
    /\ Cardinality(DOMAIN users) = 2
    /\ \E i \in DOMAIN users : users[i].google_id = G_one
    /\ resp.op = "update_user_oauth_info"
    /\ resp.detail = "IntegrityError"

----------------------------------------------------------------------------
(* Properties of the routes *)

\* C2: POST /users/ with a username that is already stored fails with 409
\* and detail 'Username already exists'; with a new username but an email
\* that is already stored it fails with 409 and detail 'Email already
\* exists'; in both cases the stored users are the same after the request
\* as before it.
C2_DuplicateCreate ==
    [][\A app \in Apps, data \in ApiCreateBodies :
          resp'.op = "create" /\ CreateUserReq(app, data)
          => /\ (\E i \in DOMAIN users : users[i].username = data.username)
                   => /\ resp'.status = 409
                      /\ resp'.detail = "Username already exists"
                      /\ users' = users
             /\ (/\ \A i \in DOMAIN users : users[i].username # data.username
                 /\ \E i \in DOMAIN users : users[i].email = data.email)
                   => /\ resp'.status = 409
                      /\ resp'.detail = "Email already exists"
                      /\ users' = users]_vars

\* C3: PUT /users/{id} or DELETE /users/{id} presented with a valid token
\* of user A and the id of another stored user B fails with 403 'Not enough
\* permissions' and leaves the stored users as they were; the same token
\* against A's own id is not refused.
C3_Ownership ==
    [][\A app \in Apps, user_id \in DOMAIN users :
          LET column == IF app = "sync" THEN "email" ELSE "username"
              A == {i \in DOMAIN users : users[i][column] = held.sub}
              refused == /\ resp'.status = 403
                         /\ resp'.detail = "Not enough permissions"
                         /\ users' = users
          IN  (held.form = "jwt" /\ held.key = "SECRET_KEY" /\ now <= held.exp
                  /\ A # {})
              => /\ \A body \in ApiUpdateBodies :
                       resp'.op = "update" /\ UpdateUserReq(app, user_id, held, body)
                       => IF user_id \in A THEN resp'.status \in {200, 409}
                          ELSE refused
                 /\ resp'.op = "delete" /\ DeleteUserReq(app, user_id, held)
                       => IF user_id \in A
                          THEN resp'.status = 200 /\ user_id \notin DOMAIN users'
                          ELSE refused]_vars

\* C4: for an id that matches no stored user, GET, PUT and DELETE
\* /users/{id} each fail with 404 and detail 'User not found', for every
\* caller that passes authentication (the async routes ask for none).
C4_NotFound ==
    [][\A app \in Apps, user_id \in Ids \ DOMAIN users :
          LET authenticated ==
                  \/ app = "async"
                  \/ /\ held.form = "jwt" /\ held.key = "SECRET_KEY"
                     /\ now <= held.exp
                     /\ \E i \in DOMAIN users : users[i].email = held.sub
              not_found == /\ resp'.status = 404
                           /\ resp'.detail = "User not found"
          IN  /\ resp'.op = "read" /\ ReadUserReq(app, user_id) => not_found
              /\ authenticated
                    => /\ \A body \in ApiUpdateBodies :
                             resp'.op = "update"
                                 /\ UpdateUserReq(app, user_id, held, body)
                             => not_found
                       /\ resp'.op = "delete" /\ DeleteUserReq(app, user_id, held)
                             => not_found]_vars

\* C6: after DELETE /users/{id} has succeeded with 'User deleted', a
\* following GET /users/{id} returns 404, and so does a second DELETE of
\* the same id by a caller that passes authentication.
C6_DeleteThenGone ==
    [][\A app \in Apps :
          (resp.op = "delete" /\ resp.status = 200 /\ resp.detail = "User deleted")
          => /\ resp'.op = "read" /\ ReadUserReq(app, resp.uid)
                   => resp'.status = 404
             /\ (/\ resp'.op = "delete"
                 /\ DeleteUserReq(app, resp.uid, held)
                 /\ \/ app = "async"
                    \/ /\ held.form = "jwt" /\ held.key = "SECRET_KEY"
                       /\ now <= held.exp
                       /\ \E i \in DOMAIN users : users[i].email = held.sub)
                   => resp'.status = 404]_vars

----------------------------------------------------------------------------
(* Properties of authentication *)

\* C7: within one app, the token returned by POST /auth/token for user U,
\* presented to GET /users/me of that app before it expires and with no
\* request in between, resolves to U.
C7_TokenRoundTrip ==
    [][\A app \in Apps :
          (/\ resp.op = "login" /\ resp.app = app /\ resp.status = 200
           /\ now <= held.exp
           /\ resp'.op = "me" /\ MeReq(app, held))
          => resp'.status = 200 /\ resp'.uid = resp.uid]_vars

\* a token the sync app issued has been presented to GET /users/me of the
\* sync app at a later time within its life, and was accepted
C7_Witness ==
    /\ resp.op = "me" /\ resp.status = 200 /\ resp.tok = "issued"
    /\ resp.app = "sync"
    /\ held.sub \in Emails
    /\ now > 0
    /\ now <= held.exp

\* C8: a POST /auth/token that fails returns status 401, detail 'Incorrect
\* username or password' and WWW-Authenticate: Bearer, whether the
\* identifier matches no account or matches an account whose password is
\* not the one given: the response does not tell the two cases apart.
C8_LoginFailureUniform ==
    [][\A app \in Apps, username \in Identifiers, password \in Passwords :
          LET matching == {i \in DOMAIN users :
                              \/ users[i].username = username
                              \/ users[i].email = username}
          IN  (/\ resp'.op = "login" /\ LoginReq(app, username, password)
               /\ \/ matching = {}
                  \/ \E i \in matching :
                        users[i].password # get_password_hash(password))
              => /\ resp'.status = 401
                 /\ resp'.detail = "Incorrect username or password"
                 /\ resp'.www = "Bearer"
                 /\ held' = held]_vars

\* the async app has just refused a login whose identifier matches an
\* active account: the password was not the account's
C8_Witness ==
    /\ resp.op = "login" /\ resp.app = "async" /\ resp.status = 401
    /\ resp.match \in DOMAIN users
    /\ users[resp.match].is_active

\* C9: get_current_user fails with 401 'Could not validate credentials'
\* when the token is malformed, wrongly signed, expired or without a sub
\* claim, and when the sub claim resolves to no stored account; the clock
\* never goes back, so an expired token is rejected on every later request.
C9_BadTokenRejected ==
    [][/\ now' >= now
       /\ \A app \in Apps, tok \in Presentable :
             LET column == IF app = "sync" THEN "email" ELSE "username"
                 bad == \/ tok.form = "garbage"
                        \/ tok.form = "jwt" /\ tok.key # "SECRET_KEY"
                        \/ tok.form = "jwt" /\ tok.exp < now
                        \/ tok.form = "jwt" /\ tok.sub = None
                        \/ tok.form = "jwt"
                              /\ \A i \in DOMAIN users : users[i][column] # tok.sub
                 rejected == /\ resp'.status = 401
                             /\ resp'.detail = "Could not validate credentials"
                             /\ resp'.www = "Bearer"
             IN  /\ (bad /\ resp'.op = "me" /\ MeReq(app, tok)) => rejected
                 /\ \A user_id \in Ids :
                       (bad /\ app = "sync" /\ resp'.op = "delete"
                            /\ DeleteUserReq(app, user_id, tok))
                       => rejected /\ users' = users]_vars

\* a token issued by the sync app to a user who is still stored has been
\* presented to GET /users/me of the sync app after its expiry and refused
C9_Witness ==
    /\ resp.op = "me" /\ resp.app = "sync" /\ resp.tok = "issued"
    /\ resp.status = 401
    /\ held.exp < now
    /\ \E i \in DOMAIN users : users[i].email = held.sub

\* C10: an account whose is_active is false cannot log in: POST /auth/token
\* with its identifier and its password returns no token, in either app.
C10_InactiveCannotLogin ==
    [][\A app \in Apps, username \in Identifiers :
          (/\ resp'.op = "login" /\ LoginReq(app, username, P_good)
           /\ \E i \in DOMAIN users :
                 /\ users[i].username = username \/ users[i].email = username
                 /\ ~users[i].is_active)
          => resp'.status # 200 /\ held' = held]_vars

----------------------------------------------------------------------------
(* Calls of security_manager, and the async login next to them *)

\* the outcome of a call of security_manager
Guarded(op, username, status, retry_after) ==
    [op |-> op, username |-> username, status |-> status,
     retry_after |-> retry_after]

\* security_manager.check_login_security; the clock may move on between
\* its reads
CheckLoginSecurityCall(client_ip, username, elapsed) ==
    /\ now + elapsed <= MaxClock
    /\ LET c == check_login_security(security_manager, client_ip, username,
                                     now, now + elapsed)
       IN  /\ security_manager' = c.sm
           /\ resp' = Guarded("check_login_security", username, c.status,
                              c.retry_after)
    /\ now' = now + elapsed
    /\ UNCHANGED <<users, held, issued_to, pc>>

\* security_manager.record_login_attempt
RecordLoginAttemptCall(client_ip, username, success) ==
    /\ Len(security_manager.attempts[client_ip]) < MaxAttempts
    /\ security_manager.failed_attempts[username] < MaxAttempts
    /\ security_manager' = record_login_attempt(security_manager, client_ip,
                                                username, success, now)
    /\ resp' = Guarded("record_login_attempt", username, 0, 0)
    /\ UNCHANGED <<users, held, now, issued_to, pc>>

\* security_manager.account_lockout.record_failed_attempt
RecordFailedAttemptCall(username) ==
    /\ security_manager.failed_attempts[username] < MaxAttempts
    /\ security_manager' = record_failed_attempt(security_manager, username, now)
    /\ resp' = Guarded("record_failed_attempt", username, 0, 0)
    /\ UNCHANGED <<users, held, now, issued_to, pc>>

NextSec ==
    \/ CreateUserReq("async", CreateBody(U_ana, E_ana, P_good))
    \/ \E password \in Passwords : LoginReq("async", U_ana, password)
    \/ \E client_ip \in ClientIps, success \in BOOLEAN :
          RecordLoginAttemptCall(client_ip, U_ana, success)
    \/ \E username \in Usernames : RecordFailedAttemptCall(username)
    \/ \E client_ip \in ClientIps, username \in Usernames,
          elapsed \in {0, ClockStep} :
          CheckLoginSecurityCall(client_ip, username, elapsed)
    \/ Tick

SpecSec == Init /\ [][NextSec]_vars

----------------------------------------------------------------------------
(* Properties of the lockout and the rate limit *)

\* C11: in the async app, while a username is locked out or the client
\* address is rate limited, a login is refused before the credentials are
\* checked: POST /auth/token does not succeed, whatever the password.
C11_LockedOutCannotLogin ==
    [][\A password \in Passwords :
          LET locked ==
                  /\ U_ana \in DOMAIN security_manager.lockout_times
                  /\ now <= security_manager.lockout_times[U_ana]
                                + ACCOUNT_LOCKOUT_DURATION_MINUTES
              recent(attempt_time) == attempt_time > now - RATE_LIMIT_WINDOW_MINUTES
              limited ==
                  \E client_ip \in ClientIps :
                      Len(SelectSeq(security_manager.attempts[client_ip], recent))
                          >= RATE_LIMIT_LOGIN_ATTEMPTS
          IN  (/\ resp'.op = "login"
               /\ LoginReq("async", U_ana, password)
               /\ locked \/ limited)
              => resp'.status # 200 /\ held' = held]_vars

\* C19: record_failed_attempt adds one to the username's counter and sets
\* the lockout time to now when the counter reaches
\* ACCOUNT_LOCKOUT_ATTEMPTS; a call made while the username is locked out
\* leaves the lockout time as it was.
C19_LockoutTimeKept ==
    [][\A username \in Usernames :
          (resp'.op = "record_failed_attempt" /\ RecordFailedAttemptCall(username))
          => /\ security_manager'.failed_attempts[username]
                   = security_manager.failed_attempts[username] + 1
             /\ security_manager'.failed_attempts[username] = ACCOUNT_LOCKOUT_ATTEMPTS
                   => /\ username \in DOMAIN security_manager'.lockout_times
                      /\ security_manager'.lockout_times[username] = now
             /\ (/\ username \in DOMAIN security_manager.lockout_times
                 /\ now <= security_manager.lockout_times[username]
                               + ACCOUNT_LOCKOUT_DURATION_MINUTES)
                   => security_manager'.lockout_times[username]
                          = security_manager.lockout_times[username]]_vars

\* C20: check_login_security fails with 429 and Retry-After = the window
\* in seconds when the address is rate limited; otherwise, whenever
\* is_locked_out reports the username locked, it fails with 423 and
\* Retry-After = the seconds of lockout that remain: it never returns
\* normally for a username just reported as locked.
C20_CheckLoginSecurity ==
    [][\A client_ip \in ClientIps, username \in Usernames, elapsed \in {0, ClockStep} :
          LET recent(attempt_time) == attempt_time > now - RATE_LIMIT_WINDOW_MINUTES
              limited ==
                  Len(SelectSeq(security_manager.attempts[client_ip], recent))
                      >= RATE_LIMIT_LOGIN_ATTEMPTS
              locked ==
                  /\ username \in DOMAIN security_manager.lockout_times
                  /\ now <= security_manager.lockout_times[username]
                                + ACCOUNT_LOCKOUT_DURATION_MINUTES
          IN  (/\ resp'.op = "check_login_security"
               /\ CheckLoginSecurityCall(client_ip, username, elapsed))
              => /\ limited => /\ resp'.status = 429
                                /\ resp'.retry_after = RATE_LIMIT_WINDOW_MINUTES * 60
                 /\ (~limited /\ locked)
                       => /\ resp'.status = 423
                          /\ resp'.retry_after
                                = (security_manager.lockout_times[username]
                                     + ACCOUNT_LOCKOUT_DURATION_MINUTES - now') * 60
                 /\ (~limited /\ ~locked) => resp'.status = 0]_vars


----------------------------------------------------------------------------
(* The session dependencies (database.py).  seen is the table as the       *)
(* session sees it when the caller is done with it: the stored rows with   *)
(* the caller's uncommitted changes.  The events are the calls made on the *)
(* session, "raise" the error leaving the generator.                       *)

\* commit of a session: the flush raises when a constraint is violated
Commit(db, seen) ==
    IF IntegrityErrors(seen) = {}
    THEN [events |-> <<"commit">>, db |-> seen, ok |-> TRUE]
    ELSE [events |-> <<"commit">>, db |-> db, ok |-> FALSE]

\* a generator that commits in its finally clause
get_session_commit_always(db, seen, caller_raises) ==
    LET c == Commit(db, seen)
    IN  [events |-> <<"yield">> \o c.events \o <<"close">>,
         db |-> c.db, raised |-> caller_raises]

\* get_session: try: yield / commit; except: rollback, raise; finally: close
get_session(db, seen, caller_raises) ==
    IF caller_raises
    THEN [events |-> <<"yield", "rollback", "raise", "close">>,
          db |-> db, raised |-> TRUE]
    ELSE LET c == Commit(db, seen)
         IN  IF c.ok
             THEN [events |-> <<"yield">> \o c.events \o <<"close">>,
                   db |-> c.db, raised |-> FALSE]
             ELSE [events |-> <<"yield">> \o c.events
                                \o <<"rollback", "raise", "close">>,
                   db |-> db, raised |-> TRUE]

\* get_async_session: the same try block inside "async with", whose exit
\* closes the session
get_async_session(db, seen, caller_raises) == get_session(db, seen, caller_raises)

\* what a caller leaves uncommitted in its session: one attribute of a row
Pending(db, user_id, column, value) ==
    IF user_id \in DOMAIN db THEN [db EXCEPT ![user_id][column] = value] ELSE db

Scoped(op, app, s) == [op |-> op, app |-> app, events |-> s.events,
                       raised |-> s.raised]

\* one use of the dependency: the caller changes a row, then returns or raises
SessionCall(app, user_id, column, value, caller_raises) ==
    /\ LET seen == Pending(users, user_id, column, value)
           s == IF app = "sync" THEN get_session(users, seen, caller_raises)
                ELSE get_async_session(users, seen, caller_raises)
       IN  /\ users' = s.db
           /\ resp' = Scoped("get_session", app, s)
    /\ UNCHANGED <<held, now, security_manager, issued_to, pc>>

PendingValues == [column : {"email"}, value : {E_ana, E_zed}]
                     \cup [column : {"bio"}, value : {B_text}]

NextDb ==
    \/ \E data \in SvcCreateBodies : CreateUserCall("sync", data)
    \/ \E user_id \in Ids : DeleteUserCall(user_id)
    \/ \E app \in Apps, user_id \in Ids, pv \in PendingValues,
          caller_raises \in BOOLEAN :
          SessionCall(app, user_id, pv.column, pv.value, caller_raises)

SpecDb == Init /\ [][NextDb]_vars

\* the number of times event e occurs in the sequence s
Occurrences(s, e) == Cardinality({i \in DOMAIN s : s[i] = e})

\* C12: each use of get_session / get_async_session yields one session;
\* the session is committed exactly when the caller finished without
\* error; when the caller raised, the session is rolled back, nothing of
\* the caller's changes is stored and the error is raised again; the
\* session is closed once, as the last thing, in both cases.
C12_SessionScope ==
    [][\A app \in Apps, user_id \in Ids, pv \in PendingValues,
          caller_raises \in BOOLEAN :
          (resp'.op = "get_session"
           /\ SessionCall(app, user_id, pv.column, pv.value, caller_raises))
          => LET ev == resp'.events
             IN  /\ Occurrences(ev, "yield") = 1
                 /\ ev[1] = "yield"
                 /\ ("commit" \in {ev[i] : i \in DOMAIN ev}) <=> ~caller_raises
                 /\ caller_raises
                      => /\ Occurrences(ev, "rollback") = 1
                         /\ \E i \in DOMAIN ev :
                               ev[i] = "rollback" /\ ev[i + 1] = "raise"
                         /\ resp'.raised
                         /\ users' = users
                 /\ Occurrences(ev, "close") = 1
                 /\ ev[Len(ev)] = "close"]_vars

\* a caller raised while holding a session with an uncommitted change, and
\* another caller's change was committed
C12_Witness ==
    /\ resp.op = "get_session"
    /\ resp.raised
    /\ "commit" \notin {resp.events[i] : i \in DOMAIN resp.events}
    /\ \E i \in DOMAIN users : users[i].bio = B_text


----------------------------------------------------------------------------
(* Google OAuth (google_oauth.py) and the callback route of both apps *)

UpperCase == <<"A", "B", "C", "D", "E", "F", "G", "H", "I", "J", "K", "L", "M",
               "N", "O", "P", "Q", "R", "S", "T", "U", "V", "W", "X", "Y", "Z">>

LowerCase == <<"a", "b", "c", "d", "e", "f", "g", "h", "i", "j", "k", "l", "m",
               "n", "o", "p", "q", "r", "s", "t", "u", "v", "w", "x", "y", "z">>

Digits == {"0", "1", "2", "3", "4", "5", "6", "7", "8", "9"}

Chars(s) == {s[i] : i \in DOMAIN s}

\* str.lower()
lower(s) ==
    [i \in DOMAIN s |->
        IF \E k \in DOMAIN UpperCase : UpperCase[k] = s[i]
        THEN LowerCase[CHOOSE k \in DOMAIN UpperCase : UpperCase[k] = s[i]]
        ELSE s[i]]

\* str.strip()
strip(s) ==
    LET kept == {i \in DOMAIN s : s[i] # " "}
    IN  IF kept = {} THEN <<>>
        ELSE SubSeq(s, CHOOSE i \in kept : \A j \in kept : i <= j, Max(kept))

\* s.split(sep, 1): the part before the first sep and the part after it
\* (<<s>> when sep does not occur)
split(s, sep) ==
    LET at == {i \in DOMAIN s : s[i] = sep}
    IN  IF at = {} THEN <<s>>
        ELSE LET k == CHOOSE i \in at : \A j \in at : i <= j
             IN  <<SubSeq(s, 1, k - 1), SubSeq(s, k + 1, Len(s))>>

\* dict.get(key, default)
Get(d, key, default) == IF key \in DOMAIN d THEN d[key] ELSE default

\* UserBase.username: min_length=3, max_length=50, ^[a-zA-Z0-9_-]+$
ValidUsername(username) ==
    /\ Len(username) >= 3
    /\ Len(username) <= 50
    /\ Chars(username) \subseteq
           Chars(UpperCase) \cup Chars(LowerCase) \cup Digits \cup {"_", "-"}

\* what Google answers to the two calls of get_user_info
Exchange(error, token_status, access_token, userinfo_status) ==
    [error |-> error, token_status |-> token_status,
     access_token |-> access_token, userinfo_status |-> userinfo_status]

\* the body of the try block of get_user_info: the exception it raises,
\* "none" when it returns user_response.json()
ExchangeCode(ex) ==
    IF ex.error = "RequestError"
    THEN [exc |-> "RequestError", status |-> 0, detail |-> "connection failed"]
    ELSE IF ex.token_status # 200
    THEN [exc |-> "HTTPException", status |-> 400,
          detail |-> "Failed to exchange authorization code for token"]
    ELSE IF ~ex.access_token
    THEN [exc |-> "HTTPException", status |-> 400,
          detail |-> "No access token received from Google"]
    ELSE IF ex.userinfo_status # 200
    THEN [exc |-> "HTTPException", status |-> 400,
          detail |-> "Failed to get user information from Google"]
    ELSE [exc |-> "none", status |-> 0, detail |-> ""]

\* GoogleOAuthService.get_user_info: the except clauses applied to what the
\* try block raises; HTTPException is an Exception and not a RequestError
get_user_info(ex) ==
    LET r == ExchangeCode(ex)
    IN  IF r.exc = "none" THEN r
        ELSE IF r.exc = "RequestError"
        THEN [exc |-> "HTTPException", status |-> 500,
              detail |-> "Network error during Google OAuth"]
        ELSE [exc |-> "HTTPException", status |-> 500,
              detail |-> "Unexpected error during Google OAuth"]

\* GoogleOAuthService.validate_user_info
validate_user_info(user_info) ==
    IF ~({"email", "name", "id"} \subseteq DOMAIN user_info)
    THEN [status |-> 400, detail |-> "Missing required field"]
    ELSE LET email == lower(strip(user_info.email))
             full_name == strip(user_info.name)
             given_name == strip(Get(user_info, "given_name", <<>>))
             family_name == strip(Get(user_info, "family_name", <<>>))
             name_parts == split(full_name, " ")
         IN  IF email = <<>> \/ "@" \notin Chars(email)
             THEN [status |-> 400, detail |-> "Invalid email address from Google"]
             ELSE [status |-> 0,
                   email |-> email,
                   first_name |-> IF given_name # <<>> /\ family_name # <<>>
                                  THEN given_name
                                  ELSE IF full_name # <<>> THEN name_parts[1]
                                  ELSE split(email, "@")[1],
                   last_name |-> IF given_name # <<>> /\ family_name # <<>>
                                 THEN family_name
                                 ELSE IF full_name # <<>> /\ Len(name_parts) > 1
                                 THEN name_parts[2]
                                 ELSE <<>>,
                   google_id |-> user_info.id,
                   picture |-> Get(user_info, "picture", <<>>),
                   verified_email |-> Get(user_info, "verified_email", FALSE)]

\* the methods of UserService (services.py); AsyncUserService has the
\* three OAuth methods as well
ServiceMethods(app) ==
    {"create_user", "get_user_by_id", "get_user_by_username",
     "get_user_by_email", "get_users", "update_user", "delete_user",
     "deactivate_user", "activate_user", "count_users"}
        \cup (IF app = "async"
              THEN {"get_user_by_google_id", "create_oauth_user",
                    "update_user_oauth_info"}
              ELSE {})

\* a plausible slip: the account is looked up by email first
FindAccountEmailFirst(db, validated) ==
    LET e == get_user_by(db, "email", validated.email)
    IN  IF e # 0 THEN [id |-> e, by |-> "email"]
        ELSE [id |-> get_user_by(db, "google_id", validated.google_id),
              by |-> "google_id"]

\* google_callback: get_user_by_google_id, and get_user_by_email only "if
\* not user"
FindAccount(db, validated) ==
    LET g == get_user_by(db, "google_id", validated.google_id)
    IN  IF g # 0 THEN [id |-> g, by |-> "google_id"]
        ELSE [id |-> get_user_by(db, "email", validated.email), by |-> "email"]

\* the UserCreate the callback builds for an identity it does not know
OAuthUserCreate(validated) ==
    [username |-> split(validated.email, "@")[1], email |-> validated.email,
     password |-> <<>>, first_name |-> validated.first_name,
     last_name |-> validated.last_name, bio |-> None]

OAuthFailed(app, detail) ==
    Response("google_callback", app, 500,
             "OAuth authentication failed: " \o detail, "", 0, "absent", 0)

\* what the try block of google_callback does once get_user_info has
\* returned user_info; every exception ends in "except Exception"
GoogleCallbackBody(app, user_info) ==
    LET v == validate_user_info(user_info)
    IN  IF v.status # 0
        THEN /\ resp' = OAuthFailed(app, v.detail)
             /\ UNCHANGED <<users, held, issued_to>>
        ELSE IF "get_user_by_google_id" \notin ServiceMethods(app)
        THEN /\ resp' = OAuthFailed(app, "AttributeError")
             /\ UNCHANGED <<users, held, issued_to>>
        ELSE LET found == FindAccount(users, v)
                 data == OAuthUserCreate(v)
                 outcomes ==
                     IF found.id # 0 /\ found.by = "google_id"
                     THEN {Returned(users, found.id)}
                     ELSE IF found.id # 0
                     THEN UpdateUserOAuthInfo(users, found.id, v.google_id,
                                              v.picture, <<"google">>)
                     ELSE IF ~ValidUsername(data.username)
                     THEN {Raised(users, "ValidationError", "username")}
                     ELSE CreateOAuthUser(users, data, v.google_id, v.picture,
                                          <<"google">>, v.verified_email)
             IN  \E r \in outcomes :
                    IF r.exc # "none"
                    THEN /\ resp' = OAuthFailed(app, r.exc)
                         /\ UNCHANGED <<users, held, issued_to>>
                    ELSE /\ users' = r.db
                         /\ issued_to' = r.id
                         /\ held' = create_access_token(
                                        IF app = "sync" THEN r.db[r.id].email
                                        ELSE r.db[r.id].username,
                                        ACCESS_TOKEN_EXPIRE_MINUTES, now)
                         /\ resp' = Response("google_callback", app, 200, "",
                                              "", r.id, "bearer", 0)

\* GET /auth/google/callback?code=... (app.py and async_app.py
\* google_callback); ex is what Google answers for the code, user_info the
\* identity it reports
GoogleCallbackReq(app, ex, user_info) ==
    /\ NewId(users) <= MaxId
    /\ LET got == get_user_info(ex)
       IN  IF got.exc # "none"
           THEN /\ resp' = OAuthFailed(app, got.detail)
                /\ UNCHANGED <<users, held, issued_to>>
           ELSE GoogleCallbackBody(app, user_info)
    /\ UNCHANGED <<now, security_manager, pc>>

\* google_oauth.get_user_info called on its own
GetUserInfoCall(ex) ==
    /\ LET got == get_user_info(ex)
       IN  resp' = [op |-> "get_user_info", exchange |-> ex,
                    status |-> got.status, detail |-> got.detail]
    /\ UNCHANGED <<users, held, now, security_manager, issued_to, pc>>

G_two == <<"g", "2">>

Success == Exchange("none", 200, TRUE, 200)

\* a refused code, a token response without access_token, a refused
\* userinfo call, a connection failure
Exchanges ==
    {Success, Exchange("none", 400, FALSE, 0), Exchange("none", 200, FALSE, 0),
     Exchange("none", 200, TRUE, 401), Exchange("RequestError", 0, FALSE, 0)}

\* what Google answers in the callbacks explored: success, a refused code
CallbackExchanges == {Success, Exchange("none", 400, FALSE, 0)}

\* identities Google reports: ana (address in capitals, verified), bob
\* (not verified), zed under ana's Google id, a.b (verified), one without id
GoogleInfos ==
    {[email |-> <<" ", "A", "n", "a", "@", "x">>, name |-> <<"A", " ", "N">>,
      id |-> G_one, picture |-> Pic, verified_email |-> TRUE],
     [email |-> E_bob, name |-> <<"B">>, id |-> G_two],
     [email |-> E_zed, name |-> <<>>, id |-> G_one, picture |-> Pic],
     [email |-> <<"a", ".", "b", "@", "x">>, name |-> <<"A">>, id |-> G_two,
      given_name |-> <<"A">>, family_name |-> <<"B">>, verified_email |-> TRUE],
     [email |-> E_ana, name |-> <<"A">>]}

\* accounts registered with a password: ana, and bob under zed's address
OAuthCreateBodies ==
    {CreateBody(U_ana, E_ana, P_good), CreateBody(U_bob, E_zed, P_good)}

NextOAuth ==
    \/ \E app \in Apps, data \in OAuthCreateBodies : CreateUserReq(app, data)
    \/ \E app \in Apps, ex \in CallbackExchanges, user_info \in GoogleInfos :
          GoogleCallbackReq(app, ex, user_info)
    \/ \E ex \in Exchanges : GetUserInfoCall(ex)
    \/ \E user_id \in Ids : DeleteUserCall(user_id)

SpecOAuth == Init /\ [][NextOAuth]_vars


\* C13: in the callback of the async app, an identity whose google_id is
\* stored logs that account in and changes nothing, whatever its email;
\* otherwise an identity whose normalized email is stored gets that account
\* re-linked: google_id, picture and oauth_provider are set, every other
\* column (id, username, password among them) and every other row stay as
\* they were, and no row is added.
C13_RelinkByEmail ==
    [][\A ex \in CallbackExchanges, user_info \in GoogleInfos :
          (/\ resp'.op = "google_callback"
           /\ resp'.app = "async"
           /\ get_user_info(ex).exc = "none"
           /\ validate_user_info(user_info).status = 0
           /\ GoogleCallbackReq("async", ex, user_info))
          => LET v == validate_user_info(user_info)
                 g == get_user_by(users, "google_id", v.google_id)
                 e == get_user_by(users, "email", v.email)
             IN  /\ g # 0 => /\ resp'.status = 200
                             /\ resp'.uid = g
                             /\ users' = users
                 /\ (g = 0 /\ e # 0)
                      => /\ resp'.status = 200
                         /\ resp'.uid = e
                         /\ DOMAIN users' = DOMAIN users
                         /\ users'[e].username = users[e].username
                         /\ users'[e].password = users[e].password
                         /\ users' = [users EXCEPT
                                         ![e].google_id = v.google_id,
                                         ![e].picture = v.picture,
                                         ![e].oauth_provider = <<"google">>]]_vars

\* an account registered with a password has been linked to a Google id by
\* the callback of the async app
C13_Witness ==
    /\ resp.op = "google_callback"
    /\ resp.app = "async"
    /\ resp.status = 200
    /\ resp.uid \in DOMAIN users
    /\ users[resp.uid].password # None
    /\ users[resp.uid].google_id = G_one
    /\ Cardinality(DOMAIN users) > 1

\* C14: in the callback of the async app, every validated identity that
\* matches no stored account by google_id or by email gets a new account
\* whose username is the local part of the email, with no password,
\* is_active true and is_verified as the provider reports it, and the
\* response is 200 with a token for that account.
C14_ProvisionNewAccount ==
    [][\A ex \in CallbackExchanges, user_info \in GoogleInfos :
          (/\ resp'.op = "google_callback"
           /\ resp'.app = "async"
           /\ get_user_info(ex).exc = "none"
           /\ validate_user_info(user_info).status = 0
           /\ LET v == validate_user_info(user_info)
              IN  /\ get_user_by(users, "google_id", v.google_id) = 0
                  /\ get_user_by(users, "email", v.email) = 0
           /\ GoogleCallbackReq("async", ex, user_info))
          => LET v == validate_user_info(user_info)
                 id == NewId(users)
             IN  /\ resp'.status = 200
                 /\ DOMAIN users' = DOMAIN users \cup {id}
                 /\ users'[id].username = split(v.email, "@")[1]
                 /\ users'[id].email = v.email
                 /\ users'[id].password = None
                 /\ users'[id].is_active
                 /\ users'[id].is_verified = v.verified_email
                 /\ held'.form = "jwt"
                 /\ held'.sub = users'[id].username]_vars

\* C15: on the sync app, GET /auth/google/callback?code=c answers 200 with
\* an access_token and token_type "bearer" when the exchange with Google
\* and the validation of the user info succeed.
C15_SyncCallbackSucceeds ==
    [][\A ex \in CallbackExchanges, user_info \in GoogleInfos :
          (/\ resp'.op = "google_callback"
           /\ resp'.app = "sync"
           /\ get_user_info(ex).exc = "none"
           /\ validate_user_info(user_info).status = 0
           /\ GoogleCallbackReq("sync", ex, user_info))
          => /\ resp'.status = 200
             /\ resp'.tok = "bearer"
             /\ held'.form = "jwt"]_vars

\* C16: get_user_info fails with 400 when the token exchange does not
\* answer 200, when the answer holds no access token and when the userinfo
\* call does not answer 200; it fails with 500 only when the connection
\* failed.
C16_ProtocolFailuresAre400 ==
    resp.op = "get_user_info"
        => LET ex == resp.exchange
               protocol_failure ==
                   /\ ex.error = "none"
                   /\ \/ ex.token_status # 200
                      \/ ~ex.access_token
                      \/ ex.userinfo_status # 200
           IN  /\ protocol_failure => resp.status = 400
               /\ resp.status = 500 <=> ex.error = "RequestError"


----------------------------------------------------------------------------
(* create_access_token with its optional argument (auth.py, async_auth.py) *)

\* the window async_auth.create_access_token uses when none is given
ASYNC_DEFAULT_EXPIRE_MINUTES == 15

\* expires_delta: <<>> for None, <<m>> for timedelta(minutes=m)
NoDelta == <<>>

\* "if expires_delta": None and timedelta(0) are both false
Truthy(expires_delta) == expires_delta # NoDelta /\ expires_delta[1] # 0

\* create_access_token(data, expires_delta) called at minute t: the token
\* returned and the caller's data afterwards (to_encode is a copy)
CreateAccessToken(app, data, expires_delta, t) ==
    LET expire == IF Truthy(expires_delta) THEN t + expires_delta[1]
                  ELSE IF app = "sync" THEN t + ACCESS_TOKEN_EXPIRE_MINUTES
                  ELSE t + ASYNC_DEFAULT_EXPIRE_MINUTES
        to_encode == [k \in DOMAIN data \cup {"exp"} |->
                         IF k = "exp" THEN expire ELSE data[k]]
    IN  [token |-> Token(Get(to_encode, "sub", None), to_encode.exp),
         data |-> data]

\* a call of create_access_token; the client keeps the token
CreateAccessTokenCall(app, data, expires_delta) ==
    /\ LET r == CreateAccessToken(app, data, expires_delta, now)
       IN  /\ held' = r.token
           /\ issued_to' = 0
           /\ resp' = [op |-> "create_access_token", app |-> app,
                       data |-> r.data]
    /\ UNCHANGED <<users, now, security_manager, pc>>

\* the claims handed to create_access_token
TokenClaims ==
    {("sub" :> s) : s \in Identifiers} \cup {("sub" :> U_ana @@ "role" :> B_text)}

Deltas == {NoDelta, <<5>>, <<10>>, <<ACCESS_TOKEN_EXPIRE_MINUTES>>}

NextTok ==
    \/ \E app \in Apps, data \in TokenClaims, expires_delta \in Deltas :
          CreateAccessTokenCall(app, data, expires_delta)
    \/ Tick

SpecTok == Init /\ [][NextTok]_vars

\* C17: create_access_token leaves the caller's claims as they were, puts
\* them into the token, and sets exp to the current time plus the window
\* given, or plus ACCESS_TOKEN_EXPIRE_MINUTES when no window is given, in
\* the sync and in the async app.
C17_TokenExpiry ==
    [][\A app \in Apps, data \in TokenClaims, expires_delta \in Deltas :
          (/\ resp'.op = "create_access_token"
           /\ CreateAccessTokenCall(app, data, expires_delta))
          => /\ resp'.data = data
             /\ held'.sub = data.sub
             /\ held'.exp = now + (IF expires_delta = NoDelta
                                   THEN ACCESS_TOKEN_EXPIRE_MINUTES
                                   ELSE expires_delta[1])]_vars


----------------------------------------------------------------------------
(* GET /users/ (app.py and async_app.py read_users) *)

\* most rows skipped, and the largest page size short of the limit
MaxSkip == 3
MaxPerPage == 4

\* Query(ge=1, le=100) of per_page and of limit
PER_PAGE_LIMIT == 100

U_cat == <<"c", "a", "t">>

\* the ids of S in the order of a table scan
Ascending(S) ==
    CHOOSE s \in [1..Cardinality(S) -> S] :
        \A i, j \in 1..Cardinality(S) : i < j => s[i] < s[j]

\* count_users(active_only=True)
count_users(db) == Cardinality({i \in DOMAIN db : db[i].is_active})

\* get_users: select(User).where(User.is_active).offset(skip).limit(limit)
get_users(db, skip, limit) ==
    LET active == Ascending({i \in DOMAIN db : db[i].is_active})
        last == IF skip + limit < Len(active) THEN skip + limit ELSE Len(active)
    IN  SubSeq(active, skip + 1, last)

\* a plausible slip: integer division
floor_div(total, per_page) == total \div per_page

\* ceil(total / per_page) for total, per_page as small as a page count
ceil(total, per_page) == (total + per_page - 1) \div per_page

UserList(app, status, list, total, page, per_page, pages) ==
    [op |-> "read_users", app |-> app, status |-> status, users |-> list,
     total |-> total, page |-> page, per_page |-> per_page, pages |-> pages]

\* GET /users/?page=first&per_page=per_page on the sync app,
\* GET /users/?skip=first&limit=per_page on the async app
ReadUsersReq(app, first, per_page) ==
    /\ IF \/ per_page < 1
          \/ per_page > PER_PAGE_LIMIT
          \/ first < (IF app = "sync" THEN 1 ELSE 0)
       THEN resp' = UserList(app, 422, <<>>, 0, first, per_page, 0)
       ELSE LET skip == IF app = "sync" THEN (first - 1) * per_page ELSE first
                total == count_users(users)
            IN  resp' = UserList(app, 200, get_users(users, skip, per_page),
                                 total,
                                 IF app = "sync" THEN first
                                 ELSE (skip \div per_page) + 1,
                                 per_page,
                                 IF total > 0 THEN ceil(total, per_page) ELSE 1)
    /\ UNCHANGED <<users, held, now, security_manager, issued_to, pc>>

ListCreateBodies ==
    {CreateBody(U_ana, E_ana, P_good), CreateBody(U_bob, E_bob, P_good),
     CreateBody(U_cat, E_zed, P_good)}

PerPages == 0..MaxPerPage \cup {PER_PAGE_LIMIT, PER_PAGE_LIMIT + 1}

NextList ==
    \/ \E app \in Apps, data \in ListCreateBodies : CreateUserReq(app, data)
    \/ \E user_id \in Ids, active \in BOOLEAN : SetActiveCall(user_id, active)
    \/ \E app \in Apps, first \in 0..MaxSkip, per_page \in PerPages :
          ReadUsersReq(app, first, per_page)

SpecList == Init /\ [][NextList]_vars

\* C18: GET /users/ accepts every per_page in 1..100 and answers with
\* total = the number of active users, pages = ceil(total / per_page) when
\* total > 0 and pages = 1 when total = 0, and a list of at most per_page
\* users, which is empty with total = 0 when no user is stored.
C18_Pagination ==
    resp.op = "read_users"
        => /\ resp.status = 200
                <=> /\ resp.per_page \in 1..PER_PAGE_LIMIT
                    /\ resp.page >= 1
           /\ resp.status = 200
                => /\ resp.total = Cardinality({i \in DOMAIN users :
                                                   users[i].is_active})
                   /\ resp.total > 0
                        => /\ resp.pages * resp.per_page >= resp.total
                           /\ (resp.pages - 1) * resp.per_page < resp.total
                   /\ resp.total = 0 => resp.pages = 1
                   /\ Len(resp.users) <= resp.per_page
                   /\ users = <<>> => resp.users = <<>> /\ resp.total = 0

\* the second page of three active users, two to a page
C18_Witness ==
    /\ resp.op = "read_users"
    /\ resp.status = 200
    /\ resp.total = 3
    /\ resp.per_page = 2
    /\ resp.pages = 2
    /\ Len(resp.users) = 1


----------------------------------------------------------------------------
(* Whose account a token opens: logins, and the service calls that change  *)
(* the rows get_current_user looks the sub claim up in                     *)

OwnCreateBodies ==
    {CreateBody(U_ana, E_ana, P_good), CreateBody(U_bob, E_bob, P_good),
     CreateBody(U_bob, E_ana, P_good)}

OwnUpdateBodies == {("email" :> e) : e \in Emails}

NextOwn ==
    \/ \E app \in Apps, data \in OwnCreateBodies : CreateUserReq(app, data)
    \/ \E app \in Apps, username \in Usernames : LoginReq(app, username, P_good)
    \/ \E user_id \in Ids, body \in OwnUpdateBodies : UpdateUserCall(user_id, body)
    \/ \E user_id \in Ids : DeleteUserCall(user_id)
    \/ \E app \in Apps : MeReq(app, held)

SpecOwn == Init /\ [][NextOwn]_vars

\* C24: whatever logins, update_user, delete_user and create_user calls
\* have been made, a token that get_current_user accepts resolves to the
\* account it was issued for.
C24_TokenKeepsItsAccount ==
    [][\A app \in Apps :
          (/\ resp'.op = "me"
           /\ held.form = "jwt"
           /\ MeReq(app, held)
           /\ resp'.status = 200)
          => resp'.uid = issued_to]_vars


----------------------------------------------------------------------------
(* AccountLockout on its own (security.py) *)

\* account_lockout.is_locked_out
IsLockedOutCall(username) ==
    /\ LET l == is_locked_out(security_manager, username, now)
       IN  /\ security_manager' = l.sm
           /\ resp' = [op |-> "is_locked_out", username |-> username,
                       result |-> l.result]
    /\ UNCHANGED <<users, held, now, issued_to, pc>>

\* account_lockout.clear_failed_attempts
ClearFailedAttemptsCall(username) ==
    /\ security_manager' = clear_failed_attempts(security_manager, username)
    /\ resp' = Guarded("clear_failed_attempts", username, 0, 0)
    /\ UNCHANGED <<users, held, now, issued_to, pc>>

\* account_lockout.get_lockout_info
GetLockoutInfoCall(username) ==
    /\ resp' = [op |-> "get_lockout_info", username |-> username,
                info |-> get_lockout_info(security_manager, username, now)]
    /\ UNCHANGED <<users, held, now, security_manager, issued_to, pc>>

NextLock ==
    \/ \E username \in Usernames : IsLockedOutCall(username)
    \/ \E username \in Usernames : RecordFailedAttemptCall(username)
    \/ \E username \in Usernames : ClearFailedAttemptsCall(username)
    \/ \E username \in Usernames : GetLockoutInfoCall(username)
    \/ Tick

SpecLock == Init /\ [][NextLock]_vars

\* C21: is_locked_out(username) answers false and changes nothing when no
\* lockout time is recorded; when the clock is past the lockout time plus
\* ACCOUNT_LOCKOUT_DURATION_MINUTES it removes the lockout time, sets the
\* failure counter to 0 and answers false; otherwise it answers true and
\* changes nothing.  Other usernames are never touched.
C21_IsLockedOut ==
    [][\A username \in Usernames :
          (resp'.op = "is_locked_out" /\ IsLockedOutCall(username))
          => LET sm == security_manager
                 recorded == username \in DOMAIN sm.lockout_times
                 expired == now > sm.lockout_times[username]
                                      + ACCOUNT_LOCKOUT_DURATION_MINUTES
             IN  /\ ~recorded => ~resp'.result /\ security_manager' = sm
                 /\ (recorded /\ expired)
                      => /\ ~resp'.result
                         /\ username \notin DOMAIN security_manager'.lockout_times
                         /\ security_manager'.failed_attempts[username] = 0
                 /\ (recorded /\ ~expired)
                      => resp'.result /\ security_manager' = sm
                 /\ \A other \in Usernames \ {username} :
                       /\ security_manager'.failed_attempts[other]
                              = sm.failed_attempts[other]
                       /\ other \in DOMAIN sm.lockout_times
                            => /\ other \in DOMAIN security_manager'.lockout_times
                               /\ security_manager'.lockout_times[other]
                                      = sm.lockout_times[other]]_vars

\* is_locked_out has just cleared an expired lockout
C21_Witness ==
    /\ resp.op = "is_locked_out"
    /\ ~resp.result
    /\ now > ACCOUNT_LOCKOUT_DURATION_MINUTES
    /\ resp.username \notin DOMAIN security_manager.lockout_times
    /\ security_manager.failed_attempts[resp.username] = 0
    /\ \E other \in Usernames : other \in DOMAIN security_manager.lockout_times

\* C26: once the lockout of a username has expired, one more
\* record_failed_attempt does not lock it again: it takes
\* ACCOUNT_LOCKOUT_ATTEMPTS failures made after the expiry.
C26_FreshAllowance ==
    [][\A username \in Usernames :
          (/\ resp'.op = "record_failed_attempt"
           /\ username \in DOMAIN security_manager.lockout_times
           /\ now > security_manager.lockout_times[username]
                        + ACCOUNT_LOCKOUT_DURATION_MINUTES
           /\ RecordFailedAttemptCall(username))
          => ~is_locked_out(security_manager', username, now').result]_vars

\* C27: a username with a lockout time has at least
\* ACCOUNT_LOCKOUT_ATTEMPTS failures counted, and a username with fewer
\* failures counted has no lockout time.
C27_LockoutImpliesThreshold ==
    \A username \in Usernames :
        /\ username \in DOMAIN security_manager.lockout_times
             => security_manager.failed_attempts[username]
                    >= ACCOUNT_LOCKOUT_ATTEMPTS
        /\ security_manager.failed_attempts[username] < ACCOUNT_LOCKOUT_ATTEMPTS
             => username \notin DOMAIN security_manager.lockout_times

\* one username is locked, the other has failures below the threshold
C27_Witness ==
    \E locked, other \in Usernames :
        /\ locked \in DOMAIN security_manager.lockout_times
        /\ security_manager.failed_attempts[locked] > ACCOUNT_LOCKOUT_ATTEMPTS
        /\ security_manager.failed_attempts[other] \in 1..(ACCOUNT_LOCKOUT_ATTEMPTS - 1)


----------------------------------------------------------------------------
(* RateLimiter on its own (security.py) *)

\* rate_limiter.is_rate_limited
IsRateLimitedCall(identifier) ==
    /\ LET l == is_rate_limited(security_manager, identifier, now)
       IN  /\ security_manager' = l.sm
           /\ resp' = [op |-> "is_rate_limited", identifier |-> identifier,
                       result |-> l.result]
    /\ UNCHANGED <<users, held, now, issued_to, pc>>

\* rate_limiter.record_attempt
RecordAttemptCall(identifier) ==
    /\ Len(security_manager.attempts[identifier]) < MaxAttempts
    /\ security_manager' = record_attempt(security_manager, identifier, now)
    /\ resp' = [op |-> "record_attempt", identifier |-> identifier]
    /\ UNCHANGED <<users, held, now, issued_to, pc>>

\* rate_limiter.clear_attempts
ClearAttemptsCall(identifier) ==
    /\ security_manager' = clear_attempts(security_manager, identifier)
    /\ resp' = [op |-> "clear_attempts", identifier |-> identifier]
    /\ UNCHANGED <<users, held, now, issued_to, pc>>

\* datetime.now() moves on by the given number of minutes
Pass(minutes) ==
    /\ now + minutes <= MaxClock
    /\ now' = now + minutes
    /\ UNCHANGED <<users, held, resp, security_manager, issued_to, pc>>

NextRate ==
    \/ \E identifier \in Addresses : IsRateLimitedCall(identifier)
    \/ \E identifier \in Addresses : RecordAttemptCall(identifier)
    \/ \E identifier \in Addresses : ClearAttemptsCall(identifier)
    \/ Pass(RATE_LIMIT_WINDOW_MINUTES)

SpecRate == Init /\ [][NextRate]_vars

\* C22 as stated: is_rate_limited(id) removes exactly the attempts older
\* than RATE_LIMIT_WINDOW_MINUTES (made more than that before now), adds
\* none, and answers true iff at least RATE_LIMIT_LOGIN_ATTEMPTS attempts
\* are left; after clear_attempts(id) no attempt is recorded for id, and
\* is_rate_limited answers false for an id without attempts.
C22_PrunesOlderThanWindow ==
    [][\A identifier \in Addresses :
          LET before == security_manager.attempts[identifier]
              after == security_manager'.attempts[identifier]
              left == {i \in DOMAIN before :
                          ~(now - before[i] > RATE_LIMIT_WINDOW_MINUTES)}
          IN  /\ (resp'.op = "is_rate_limited" /\ IsRateLimitedCall(identifier))
                   => /\ Len(after) = Cardinality(left)
                      /\ after = SubSeq(before, Len(before) - Len(after) + 1,
                                        Len(before))
                      /\ resp'.result <=> Len(after) >= RATE_LIMIT_LOGIN_ATTEMPTS
                      /\ before = <<>> => ~resp'.result
                      /\ \A other \in Addresses \ {identifier} :
                            security_manager'.attempts[other]
                                = security_manager.attempts[other]
              /\ (resp'.op = "clear_attempts" /\ ClearAttemptsCall(identifier))
                   => after = <<>>]_vars

\* C22 amended: the attempts is_rate_limited(id) removes are exactly those
\* made RATE_LIMIT_WINDOW_MINUTES or more before now; the rest as stated.
C22_PrunesWindowOldOrOlder ==
    [][\A identifier \in Addresses :
          LET before == security_manager.attempts[identifier]
              after == security_manager'.attempts[identifier]
              left == {i \in DOMAIN before :
                          ~(now - before[i] >= RATE_LIMIT_WINDOW_MINUTES)}
          IN  /\ (resp'.op = "is_rate_limited" /\ IsRateLimitedCall(identifier))
                   => /\ Len(after) = Cardinality(left)
                      /\ after = SubSeq(before, Len(before) - Len(after) + 1,
                                        Len(before))
                      /\ resp'.result <=> Len(after) >= RATE_LIMIT_LOGIN_ATTEMPTS
                      /\ before = <<>> => ~resp'.result
                      /\ \A other \in Addresses \ {identifier} :
                            security_manager'.attempts[other]
                                = security_manager.attempts[other]
              /\ (resp'.op = "clear_attempts" /\ ClearAttemptsCall(identifier))
                   => after = <<>>]_vars

\* is_rate_limited has just removed old attempts of an address and found
\* it rate limited by the newer ones
C22_Witness ==
    /\ resp.op = "is_rate_limited"
    /\ resp.result
    /\ now >= RATE_LIMIT_WINDOW_MINUTES
    /\ Len(security_manager.attempts[resp.identifier]) = RATE_LIMIT_LOGIN_ATTEMPTS
    /\ \A i \in DOMAIN security_manager.attempts[resp.identifier] :
          security_manager.attempts[resp.identifier][i] = now


----------------------------------------------------------------------------
(* record_login_attempt for several addresses and usernames *)

NextMgr ==
    \/ \E client_ip \in Addresses, username \in Usernames, success \in BOOLEAN :
          RecordLoginAttemptCall(client_ip, username, success)
    \/ Pass(ACCOUNT_LOCKOUT_DURATION_MINUTES)

SpecMgr == Init /\ [][NextMgr]_vars

\* C23: record_login_attempt with success=true leaves the address of the
\* request without recorded attempts and the username with a failure
\* counter of 0 and no lockout; with success=false it appends one attempt
\* (the current time) for the address and adds one failure for the
\* username; either way the attempts of every other address and the
\* counter and lockout of every other username stay as they were.
C23_RecordLoginAttempt ==
    [][\A client_ip \in Addresses, username \in Usernames, success \in BOOLEAN :
          (/\ resp'.op = "record_login_attempt"
           /\ RecordLoginAttemptCall(client_ip, username, success))
          => LET sm == security_manager
                 sm2 == security_manager'
             IN  /\ success
                      => /\ sm2.attempts[client_ip] = <<>>
                         /\ sm2.failed_attempts[username] = 0
                         /\ username \notin DOMAIN sm2.lockout_times
                 /\ ~success
                      => /\ sm2.attempts[client_ip]
                               = Append(sm.attempts[client_ip], now)
                         /\ sm2.failed_attempts[username]
                               = sm.failed_attempts[username] + 1
                 /\ \A other \in Addresses \ {client_ip} :
                       sm2.attempts[other] = sm.attempts[other]
                 /\ \A other \in Usernames \ {username} :
                       /\ sm2.failed_attempts[other] = sm.failed_attempts[other]
                       /\ (other \in DOMAIN sm2.lockout_times)
                              <=> (other \in DOMAIN sm.lockout_times)
                       /\ other \in DOMAIN sm.lockout_times
                            => sm2.lockout_times[other] = sm.lockout_times[other]]_vars

\* a successful login of ana from one address has cleared her failures
\* and that address, while bob is still locked out and the other address
\* still has its attempts
C23_Witness ==
    /\ resp.op = "record_login_attempt"
    /\ resp.username = U_ana
    /\ security_manager.failed_attempts[U_ana] = 0
    /\ security_manager.attempts["10.0.0.1"] = <<>>
    /\ Len(security_manager.attempts["10.0.0.2"]) > 0
    /\ U_bob \in DOMAIN security_manager.lockout_times


----------------------------------------------------------------------------
(* Accounts created without a password *)

PwdCreateBodies ==
    {CreateBody(u, E_ana, p) : u \in Usernames, p \in {<<>>, P_good}}
        \cup {CreateBody(U_bob, E_bob, <<>>)}

NextPwd ==
    \/ \E service \in Apps, data \in PwdCreateBodies : CreateUserCall(service, data)
    \/ \E data \in SvcOAuthBodies : CreateOAuthUserCall(data, G_one)
    \/ \E app \in Apps, username \in Usernames, password \in {<<>>, P_good} :
          LoginReq(app, username, password)
    \/ \E user_id \in Ids : DeleteUserCall(user_id)

SpecPwd == Init /\ [][NextPwd]_vars

\* C30: create_user of either service and create_oauth_user, called with
\* an empty password, store the account with an absent password, against
\* which no password verifies, the empty one included.
C30_EmptyPasswordStoredAbsent ==
    [][/\ \A service \in Apps, data \in PwdCreateBodies :
             (/\ resp'.op = "create_user"
              /\ resp'.uid # 0
              /\ data.password = <<>>
              /\ CreateUserCall(service, data))
             => /\ users'[resp'.uid].password = None
                /\ \A password \in {<<>>, P_good, P_bad} :
                      ~verify_password(password, users'[resp'.uid].password)
       /\ \A data \in SvcOAuthBodies :
             (/\ resp'.op = "create_oauth_user"
              /\ resp'.uid # 0
              /\ CreateOAuthUserCall(data, G_one))
             => /\ users'[resp'.uid].password = None
                /\ \A password \in {<<>>, P_good, P_bad} :
                      ~verify_password(password, users'[resp'.uid].password)]_vars


----------------------------------------------------------------------------
(* POST /users/ of the sync app step by step: handlers of the sync app run *)
(* in worker threads, each with a session of its own, so the statements of *)
(* two requests interleave.  A request that is done holds its response     *)
(* until it is picked up.                                                  *)

Done(data, status, detail) ==
    [at |-> "done", data |-> data, status |-> status, detail |-> detail]

\* UserService.create_user: the select by username
CreateCheckUsername(r, data) ==
    /\ pc[r] = Idle
    /\ pc' = [pc EXCEPT ![r] =
                 IF get_user_by(users, "username", data.username) # 0
                 THEN Done(data, 409, "Username already exists")
                 ELSE [at |-> "username_checked", data |-> data]]
    /\ UNCHANGED <<users, held, now, resp, security_manager, issued_to>>

\* UserService.create_user: the select by email
CreateCheckEmail(r) ==
    /\ pc[r].at = "username_checked"
    /\ pc' = [pc EXCEPT ![r] =
                 IF get_user_by(users, "email", pc[r].data.email) # 0
                 THEN Done(pc[r].data, 409, "Email already exists")
                 ELSE [at |-> "email_checked", data |-> pc[r].data]]
    /\ UNCHANGED <<users, held, now, resp, security_manager, issued_to>>

\* UserService.create_user from session.add on, and session.commit of the
\* handler: an IntegrityError is raised again as it is, which the handler
\* does not catch
CreateFlush(r) ==
    /\ pc[r].at = "email_checked"
    /\ NewId(users) <= MaxId
    /\ LET data == pc[r].data
           db2 == Put(users, NewId(users),
                      User(data.username, data.email,
                           get_password_hash(data.password),
                           data.first_name, data.last_name, data.bio))
       IN  IF IntegrityErrors(db2) = {}
           THEN /\ users' = db2
                /\ pc' = [pc EXCEPT ![r] = Done(data, 201, "")]
           ELSE /\ users' = users
                /\ pc' = [pc EXCEPT ![r] = Done(data, 500, "Internal Server Error")]
    /\ UNCHANGED <<held, now, resp, security_manager, issued_to>>

\* the response of a request leaves the server
CreateReturn(r) ==
    /\ pc[r].at = "done"
    /\ resp' = Response("create", "sync", pc[r].status, pc[r].detail, "", 0,
                        "absent", 0)
    /\ pc' = [pc EXCEPT ![r] = Idle]
    /\ UNCHANGED <<users, held, now, security_manager, issued_to>>

ConcCreateBodies ==
    {CreateBody(U_ana, E_ana, P_good), CreateBody(U_ana, E_bob, P_good),
     CreateBody(U_bob, E_ana, P_good)}

NextConc ==
    \/ \E r \in Requests, data \in ConcCreateBodies : CreateCheckUsername(r, data)
    \/ \E r \in Requests : CreateCheckEmail(r)
    \/ \E r \in Requests : CreateFlush(r)
    \/ \E r \in Requests : CreateReturn(r)
    \/ \E user_id \in Ids : DeleteUserCall(user_id)

SpecConc == Init /\ [][NextConc]_vars

\* C28: of two sync create_user requests for the same username or the same
\* email, however they interleave, at most one creates an account and the
\* other gets 409, as when they run one after the other: neither gets any
\* other answer.
C28_ConcurrentDuplicateCreate ==
    \A r1, r2 \in Requests :
        (/\ r1 # r2
         /\ pc[r1].at = "done"
         /\ pc[r2].at = "done"
         /\ \/ pc[r1].data.username = pc[r2].data.username
            \/ pc[r1].data.email = pc[r2].data.email)
        => /\ pc[r1].status \in {201, 409}
           /\ pc[r2].status \in {201, 409}
           /\ ~(pc[r1].status = 201 /\ pc[r2].status = 201)


----------------------------------------------------------------------------
(* A login request that runs check_login_security, then verifies the       *)
(* credentials, then runs record_login_attempt.  Each of the three awaits  *)
(* its callee, so requests of the event loop interleave between them; the  *)
(* locks of the rate limiter and of the account lockout are held inside    *)
(* one method call only.                                                   *)

\* await security_manager.check_login_security(request, username)
LoginCheck(r, client_ip, username) ==
    /\ pc[r] = Idle
    /\ LET c == check_login_security(security_manager, client_ip, username,
                                     now, now)
       IN  /\ security_manager' = c.sm
           /\ resp' = Guarded("check_login_security", username, c.status,
                              c.retry_after)
           /\ pc' = [pc EXCEPT ![r] =
                        IF c.status = 0
                        THEN [at |-> "checked", client_ip |-> client_ip,
                              username |-> username]
                        ELSE Idle]
    /\ UNCHANGED <<users, held, now, issued_to>>

\* the credentials are verified (a lookup and a hash comparison are awaited)
LoginVerify(r, success) ==
    /\ pc[r].at = "checked"
    /\ pc' = [pc EXCEPT ![r] =
                 [at |-> "verified", client_ip |-> pc[r].client_ip,
                  username |-> pc[r].username, success |-> success]]
    /\ UNCHANGED <<users, held, now, resp, security_manager, issued_to>>

\* await security_manager.record_login_attempt(request, username, success)
LoginRecord(r) ==
    /\ pc[r].at = "verified"
    /\ Len(security_manager.attempts[pc[r].client_ip]) < MaxAttempts
    /\ security_manager.failed_attempts[pc[r].username] < MaxAttempts
    /\ security_manager' = record_login_attempt(security_manager,
                               pc[r].client_ip, pc[r].username,
                               pc[r].success, now)
    /\ resp' = Guarded("record_login_attempt", pc[r].username, 0, 0)
    /\ pc' = [pc EXCEPT ![r] = Idle]
    /\ UNCHANGED <<users, held, now, issued_to>>

NextFlow ==
    \/ \E r \in Requests, client_ip \in ClientIps, username \in Usernames :
           LoginCheck(r, client_ip, username)
    \/ \E r \in Requests, success \in BOOLEAN : LoginVerify(r, success)
    \/ \E r \in Requests : LoginRecord(r)
    \/ Pass(RATE_LIMIT_WINDOW_MINUTES)

SpecFlow == Init /\ [][NextFlow]_vars

\* C25: when every login request runs the check, the verification and the
\* record in this order, then however the requests of one address
\* interleave, no more than RATE_LIMIT_LOGIN_ATTEMPTS failed attempts of the
\* address that passed the rate-limit check are recorded inside one window.
C25_RateLimitUnderInterleaving ==
    \A client_ip \in ClientIps :
        Cardinality({i \in DOMAIN security_manager.attempts[client_ip] :
                        security_manager.attempts[client_ip][i]
                            > now - RATE_LIMIT_WINDOW_MINUTES})
            <= RATE_LIMIT_LOGIN_ATTEMPTS


----------------------------------------------------------------------------
(* The methods of RateLimiter and AccountLockout statement by statement.   *)
(* Every method body is inside "async with self._lock": a call enters when *)
(* the lock of its object is free, reads what it works on, and on leaving  *)
(* writes what it computed from that and releases the lock.  The lock      *)
(* fields of the security manager are TRUE while a call holds them.        *)

RateLimiterMethods == {"is_rate_limited", "record_attempt", "clear_attempts"}

AccountLockoutMethods ==
    {"is_locked_out", "record_failed_attempt", "clear_failed_attempts"}

LockOf(method) ==
    IF method \in RateLimiterMethods
    THEN "rate_limiter_lock" ELSE "account_lockout_lock"

LockFreeAlways(sm, method) == TRUE

\* async with self._lock: the caller waits while another call holds it
LockFree(sm, method) == ~sm[LockOf(method)]

\* what the method reads before it writes
Seen(sm, method, key) ==
    IF method \in RateLimiterMethods
    THEN sm.attempts[key] ELSE sm.failed_attempts[key]

\* the security manager as the call that read `seen` sees it
WithSeen(sm, method, key, seen) ==
    IF method \in RateLimiterMethods
    THEN [sm EXCEPT !.attempts[key] = seen]
    ELSE [sm EXCEPT !.failed_attempts[key] = seen]

\* the method's writes and its return value
Body(sm, method, key, t) ==
    CASE method = "is_rate_limited" -> is_rate_limited(sm, key, t)
      [] method = "record_attempt" ->
             [sm |-> record_attempt(sm, key, t), result |-> FALSE]
      [] method = "clear_attempts" ->
             [sm |-> clear_attempts(sm, key), result |-> FALSE]
      [] method = "is_locked_out" -> is_locked_out(sm, key, t)
      [] method = "record_failed_attempt" ->
             [sm |-> record_failed_attempt(sm, key, t), result |-> FALSE]
      [] method = "clear_failed_attempts" ->
             [sm |-> clear_failed_attempts(sm, key), result |-> FALSE]

Enter(r, method, key) ==
    /\ pc[r] = Idle
    /\ LockFree(security_manager, method)
    /\ method = "record_attempt"
           => Len(security_manager.attempts[key]) < MaxAttempts
    /\ method = "record_failed_attempt"
           => security_manager.failed_attempts[key] < MaxAttempts
    /\ security_manager' = [security_manager EXCEPT ![LockOf(method)] = TRUE]
    /\ pc' = [pc EXCEPT ![r] =
                 [at |-> "in", method |-> method, key |-> key,
                  seen |-> Seen(security_manager, method, key)]]
    /\ UNCHANGED <<users, held, now, resp, issued_to>>

Leave(r) ==
    /\ pc[r].at = "in"
    /\ LET method == pc[r].method
           key == pc[r].key
           b == Body(WithSeen(security_manager, method, key, pc[r].seen),
                     method, key, now)
       IN  /\ security_manager' = [b.sm EXCEPT ![LockOf(method)] = FALSE]
           /\ resp' = [op |-> method, key |-> key, result |-> b.result]
    /\ pc' = [pc EXCEPT ![r] = Idle]
    /\ UNCHANGED <<users, held, now, issued_to>>

NextLocks ==
    \/ \E r \in Requests, method \in RateLimiterMethods, key \in ClientIps :
           Enter(r, method, key)
    \/ \E r \in Requests, method \in AccountLockoutMethods, key \in Usernames :
           Enter(r, method, key)
    \/ \E r \in Requests : Leave(r)
    \/ Pass(ACCOUNT_LOCKOUT_DURATION_MINUTES)

SpecLocks == Init /\ [][NextLocks]_vars

\* C29: under every interleaving of the calls, each record_failed_attempt
\* raises the counter of its username by exactly one over the value the
\* counter has when the call writes, and each record_attempt adds exactly
\* one timestamp to the list its address has at that moment; is_rate_limited
\* drops from that list only what is out of the window, and is_locked_out
\* and the clear operations write what they write when run alone: no update
\* of a concurrent call is lost, so n calls count n.
C29_NoLostUpdate ==
    [][\A r \in Requests :
          (pc[r].at = "in" /\ Leave(r)) =>
              LET method == pc[r].method
                  key == pc[r].key
                  alone == Body(security_manager, method, key, now).sm
              IN  /\ security_manager'.attempts = alone.attempts
                  /\ security_manager'.failed_attempts = alone.failed_attempts
                  /\ security_manager'.lockout_times = alone.lockout_times
                  /\ method = "record_failed_attempt" =>
                         security_manager'.failed_attempts[key]
                             = security_manager.failed_attempts[key] + 1
                  /\ method = "record_attempt" =>
                         Len(security_manager'.attempts[key])
                             = Len(security_manager.attempts[key]) + 1
                  /\ method = "is_rate_limited" =>
                         \A i \in DOMAIN security_manager.attempts[key] :
                             security_manager.attempts[key][i]
                                 > now - RATE_LIMIT_WINDOW_MINUTES
                             => \E j \in DOMAIN security_manager'.attempts[key] :
                                    security_manager'.attempts[key][j]
                                        = security_manager.attempts[key][i]
      ]_vars

\* two calls are inside their locked sections at once, one of each object,
\* after two failures and two attempts have been counted
C29_Witness ==
    /\ \E r1, r2 \in Requests :
           /\ pc[r1].at = "in"
           /\ pc[r1].method = "record_failed_attempt"
           /\ pc[r2].at = "in"
           /\ pc[r2].method = "record_attempt"
           /\ security_manager.failed_attempts[pc[r1].key] >= 2
           /\ Len(security_manager.attempts[pc[r2].key]) >= 2

====
